---- MODULE Spec2Model ----
(***************************************************************************)
(* Memory subsystem of the 9x kernel: the physical page allocator, the     *)
(* user page mapper with its MapMemTask / UnmapMemTask state machines, and *)
(* the VMA allocator (red-black interval tree over paged node storage).    *)
(*                                                                         *)
(* Scaling.  Addresses are byte addresses.  The 9-bit index field of each  *)
(* paging level is scaled to IndexBits bits, so a table has 2^IndexBits    *)
(* entries and the lower (user) half of the address space ends at          *)
(* HIGHEST_USER_ADDRESS = 2^(12 + 4*IndexBits - 1) - 1.  usize counters    *)
(* are unbounded integers: a negative value stands for the wrapped value.  *)
(* A panic (assert!, unwrap, bounds check, unreachable!) halts the kernel: *)
(* fault = "panic".  Undefined behaviour (a pointer used at the wrong      *)
(* type, NodePtr::free of a node outside any storage page) sets            *)
(* fault = "ub"; nothing is assumed about the state afterwards.  The one   *)
(* undefined behaviour kept apart is fix_delete taking a leaf for the      *)
(* sibling branch: fault = "leaf_sibling".  ops counts the tree operations *)
(* made so far and bounds every run to MaxOps of them.                     *)
(***************************************************************************)
EXTENDS Integers, Sequences, FiniteSets, TLC

\* ------------------------------------------------------------------ bounds
IndexBits == 1
TotalPages == 10
MAX_NODES == 20
MaxSegPages == 2
MaxTasks == 2
MaxSuspendAfter == 2
MaxFuel == 24
BootReserved == 3
MaxStartPage == 4
MaxUsedLeaves == 3
MaxOps == 6
MaxProcs == 5

\* --------------------------------------------------------------- constants
PAGE_SIZE == 4096

NONE == -1

Pow2(n) == 2 ^ n

EntriesPerTable == Pow2(IndexBits)

\* arch::process::HIGHEST_USER_ADDRESS: the last address of the lower half.
HIGHEST_USER_ADDRESS == Pow2(12 + 4 * IndexBits - 1) - 1

UserPages == (HIGHEST_USER_ADDRESS + 1) \div PAGE_SIZE

Frames == 0 .. (TotalPages - 1)

\* The element of a singleton set.  Only({e : x \in {v}}) is e with x bound
\* to v, v being written (and evaluated) once.
Only(S) == CHOOSE x \in S : TRUE

Max(a, b) == IF a >= b THEN a ELSE b

\* usize::saturating_sub
SaturatingSub(a, b) == IF a >= b THEN a - b ELSE 0

\* ------------------------------------------------------------ bit helpers
\* Bit i of a byte, counted from the most significant bit (0x80 >> i).
BitOf(byte, i) == (byte \div Pow2(7 - i)) % 2

SetBit(byte, i) == IF BitOf(byte, i) = 1 THEN byte ELSE byte + Pow2(7 - i)

ClearBit(byte, i) == IF BitOf(byte, i) = 1 THEN byte - Pow2(7 - i) ELSE byte

\* (!byte).leading_zeros() for a byte # 0xFF: the first clear bit from the MSB.
FirstClearBit(byte) == CHOOSE i \in 0 .. 7 :
                          /\ BitOf(byte, i) = 0
                          /\ \A j \in 0 .. (i - 1) : BitOf(byte, j) = 1

\* u8::count_zeros
CountZeros(byte) == Cardinality({i \in 0 .. 7 : BitOf(byte, i) = 0})

\* --------------------------------------------------- page table entries
ZERO == [present |-> FALSE, writable |-> FALSE, user_accessable |-> FALSE,
         no_execute |-> FALSE, addr |-> 0]

READ_WRITE_EXECUTE == [present |-> TRUE, writable |-> TRUE, user_accessable |-> FALSE,
                       no_execute |-> FALSE, addr |-> 0]

ZeroTable == [i \in 0 .. (EntriesPerTable - 1) |-> ZERO]

\* MapMemTask::new: the PageTableEntry built from the segment flags.
FlagsEntry(flags) == [present |-> TRUE, writable |-> flags.write,
                      user_accessable |-> flags.read,
                      no_execute |-> ~flags.execute, addr |-> 0]

\* LevelIndex with the top bit of the PML4 index forced on: every address
\* walks through the upper half.
LevelIndex_UpperHalf(i, virtual_address) ==
    LET index == (virtual_address \div Pow2((3 - i) * IndexBits + 12)) % EntriesPerTable
    IN IF i = 0 THEN (EntriesPerTable \div 2) + (index % (EntriesPerTable \div 2))
       ELSE index

\* (level_mask & virtual_address) >> ((3 - i) * 9 + 12), i = 0 (PML4) .. 3 (PT).
LevelIndex(i, virtual_address) ==
    (virtual_address \div Pow2((3 - i) * IndexBits + 12)) % EntriesPerTable

FrameOf(address) == address \div PAGE_SIZE

\* ------------------------------------------------ physical page allocator
BitmapLen == (TotalPages + 7) \div 8

\* PageAllocatorInternal::find_and_reserve_page on the fields of W:
\* the first byte # 0xFF, its highest-order clear bit; the frame is zeroed.
FindFreeByte(bitmap) ==
    IF \E b \in 0 .. (BitmapLen - 1) : bitmap[b] # 255
    THEN CHOOSE b \in 0 .. (BitmapLen - 1) :
            /\ bitmap[b] # 255
            /\ \A c \in 0 .. (b - 1) : bitmap[c] = 255
    ELSE NONE

\* find_and_reserve_page taking the last free frame instead of the first.
find_and_reserve_page_LastFit(W) ==
    LET free == {f \in Frames : BitOf(W.bitmap[f \div 8], f % 8) = 0}
    IN IF free = {}
       THEN [W |-> W, ok |-> FALSE, addr |-> 0]
       ELSE LET frame == CHOOSE f \in free : \A g \in free : g <= f
            IN [W |-> [W EXCEPT !.bitmap[frame \div 8] = SetBit(@, frame % 8),
                                !.free_pages = @ - 1,
                                !.mem[frame] = ZeroTable],
                ok |-> TRUE, addr |-> frame * PAGE_SIZE]

find_and_reserve_page(W) ==
    LET byte_index == FindFreeByte(W.bitmap)
    IN IF byte_index = NONE
       THEN [W |-> W, ok |-> FALSE, addr |-> 0]
       ELSE LET bit_index == FirstClearBit(W.bitmap[byte_index])
                frame == byte_index * 8 + bit_index
            IN [W |-> [W EXCEPT !.bitmap[byte_index] = SetBit(@, bit_index),
                                !.free_pages = @ - 1,
                                !.mem[frame] = ZeroTable],
                ok |-> TRUE, addr |-> frame * PAGE_SIZE]

\* PageAllocatorInternal::free_page
free_page(W, address) ==
    LET byte_index == address \div (PAGE_SIZE * 8)
        bit_offset == (address \div PAGE_SIZE) % 8
    IN IF byte_index * 8 + bit_offset >= TotalPages
       THEN W
       ELSE [W EXCEPT !.bitmap[byte_index] = ClearBit(@, bit_offset),
                      !.free_pages = @ + 1]

IsReserved(bitmap, frame) == BitOf(bitmap[frame \div 8], frame % 8) = 1

\* The frames whose bit is clear in a bitmap.
ClearFrames(bitmap) ==
    {f \in 0 .. (8 * BitmapLen - 1) : ~IsReserved(bitmap, f)}

\* PageTableEntry::READ_WRITE
READ_WRITE == [present |-> TRUE, writable |-> TRUE, user_accessable |-> FALSE,
               no_execute |-> TRUE, addr |-> 0]

\* The kernel's PML4, PageAllocatorInternal::page_table: frame 0.
page_table_address == 0

\* PageAllocatorInternal::map_page_translation from level i on.
RECURSIVE TranslationWalk(_, _, _, _, _, _)
TranslationWalk(W, i, current_address, physical_address, virtual_address, flags) ==
    LET index == LevelIndex(i, virtual_address)
        present == W.mem[FrameOf(current_address)][index].present
    IN IF i = 3
       THEN IF present THEN [W |-> W, res |-> "PageAlreadyExists"]
            ELSE [W |-> [W EXCEPT !.mem[FrameOf(current_address)][index] =
                                     [flags EXCEPT !.addr = physical_address]],
                  res |-> "Ok"]
       ELSE IF present
       THEN TranslationWalk(W, i + 1, W.mem[FrameOf(current_address)][index].addr,
                            physical_address, virtual_address, flags)
       ELSE Only({
            IF ~r.ok THEN [W |-> W, res |-> "OutOfPages"]
            ELSE TranslationWalk(
                     [r.W EXCEPT !.mem[FrameOf(current_address)][index] =
                                    [READ_WRITE EXCEPT !.addr = r.addr]],
                     i + 1, r.addr, physical_address, virtual_address, flags)
            : r \in {find_and_reserve_page(W)}})

\* PageAllocatorInternal::map_page_translation
map_page_translation(W, physical_address, virtual_address, flags) ==
    TranslationWalk(W, 0, page_table_address, physical_address, virtual_address, flags)

\* map_page keeping the frame it reserved when the translation fails.
map_page_NoFree(W, virtual_address, flags) ==
    Only({IF ~r.ok THEN [W |-> W, res |-> "OutOfPages"]
          ELSE map_page_translation(r.W, r.addr, virtual_address, flags)
          : r \in {find_and_reserve_page(W)}})

\* PageAllocatorInternal::map_page
map_page(W, virtual_address, flags) ==
    Only({IF ~r.ok THEN [W |-> W, res |-> "OutOfPages"]
          ELSE Only({IF t.res # "Ok"
                     THEN [W |-> free_page(t.W, r.addr), res |-> t.res]
                     ELSE t
                     : t \in {map_page_translation(r.W, r.addr, virtual_address, flags)}})
          : r \in {find_and_reserve_page(W)}})

\* ------------------------------------------------------- user page mapper
\* The PML4 frame owned by the UserPageMapper (allocated at construction).
Entry(W, table_address, index) == W.mem[FrameOf(table_address)][index]

\* child_flags = (flags.0 & 0x8000_0000_0000_0007) | 5
ChildFlags(flags) == [present |-> TRUE, writable |-> flags.writable,
                      user_accessable |-> TRUE, no_execute |-> flags.no_execute,
                      addr |-> 0]

\* The loop of UserPageMapper::map_blank_page from level i on.  created is the
\* list parent_pages_created; the result carries the walk's outcome.
RECURSIVE MapWalk(_, _, _, _, _, _, _)
MapWalk(W, i, current_address, virtual_address, flags, created, pages_used) ==
    LET index == LevelIndex(i, virtual_address)
        entry == Entry(W, current_address, index)
    IN IF ~entry.present
       THEN Only({
            IF ~r.ok
            THEN [W |-> W, res |-> "OutOfMemory", created |-> created,
                  pages_used |-> pages_used + 1]
            ELSE LET new_entry == [(IF i < 3 THEN READ_WRITE_EXECUTE
                                             ELSE ChildFlags(flags))
                                     EXCEPT !.addr = r.addr]
                     W1 == [r.W EXCEPT
                              !.mem[FrameOf(current_address)][index] = new_entry]
                     created1 == IF i < 3 THEN Append(created, r.addr) ELSE created
                 IN IF i = 3
                    THEN [W |-> W1, res |-> "Ok", created |-> created1,
                          pages_used |-> pages_used + 1]
                    ELSE MapWalk(W1, i + 1, r.addr, virtual_address, flags,
                                 created1, pages_used + 1)
            : r \in {find_and_reserve_page(W)}})
       ELSE IF i = 3
            THEN [W |-> W, res |-> "PageAlreadyExists", created |-> <<>>,
                  pages_used |-> pages_used]
            ELSE MapWalk(W, i + 1, entry.addr, virtual_address, flags,
                         created, pages_used)

\* The cleanup loop of map_blank_page: free every parent page created.
RECURSIVE FreeCreated(_, _)
FreeCreated(W, created) ==
    IF created = <<>> THEN W
    ELSE FreeCreated(free_page(W, Head(created)), Tail(created))

\* UserPageMapper::map_blank_page
map_blank_page(W, virtual_address, flags, pages_used) ==
    Only({IF r.res = "OutOfMemory"
          THEN [W |-> FreeCreated(r.W, r.created), res |-> r.res,
                pages_used |-> r.pages_used - Len(r.created)]
          ELSE [W |-> r.W, res |-> r.res, pages_used |-> r.pages_used]
          : r \in {MapWalk(W, 0, W.pml4, virtual_address, flags, <<>>, pages_used)}})

\* The first loop of unmap_page: table_addresses, or <<>> when an entry on the
\* way is not present.
RECURSIVE UnmapWalk(_, _, _, _, _)
UnmapWalk(W, i, current_address, virtual_address, table_addresses) ==
    LET index == LevelIndex(i, virtual_address)
        entry == Entry(W, current_address, index)
        seen == Append(table_addresses, <<index, current_address>>)
    IN IF ~entry.present THEN <<>>
       ELSE IF i = 3 THEN seen
       ELSE UnmapWalk(W, i + 1, entry.addr, virtual_address, seen)

\* The second loop of unmap_page, from the PT upwards.  The scan of the table
\* for a non-zero entry only leaves its own inner loop: it decides nothing.
RECURSIVE UnmapFree(_, _, _, _, _)
UnmapFree(W, table_addresses, tables_checked, free_table_check_depth, pages_freed) ==
    IF tables_checked > 3 THEN [W |-> W, pages_freed |-> pages_freed]
    ELSE LET pair == table_addresses[4 - tables_checked]
             prev_table_index == pair[1]
             table_addr == pair[2]
             page_address == Entry(W, table_addr, prev_table_index).addr
             W1 == [W EXCEPT !.mem[FrameOf(table_addr)][prev_table_index] = ZERO]
             W2 == free_page(W1, page_address)
         IN IF tables_checked >= free_table_check_depth
            THEN [W |-> W2, pages_freed |-> pages_freed + 1]
            ELSE UnmapFree(W2, table_addresses, tables_checked + 1,
                           free_table_check_depth, pages_freed + 1)

\* UserPageMapper::unmap_page
unmap_page(W, virtual_address, free_table_check_depth) ==
    LET table_addresses == UnmapWalk(W, 0, W.pml4, virtual_address, <<>>)
    IN IF table_addresses = <<>>
       THEN [W |-> W, pages_freed |-> 0]
       ELSE UnmapFree(W, table_addresses, 0, free_table_check_depth, 0)

\* UserPageMapper::free_page_tree, and its loop over the entries i .. n - 1 of
\* a table. No entry the mapper installs is a huge page.
RECURSIVE free_page_tree(_, _, _), FreeEntries(_, _, _, _, _)
free_page_tree(W, node, level) ==
    IF ~node.present THEN W
    ELSE free_page(IF level < 3
                   THEN FreeEntries(W, FrameOf(node.addr), 0, EntriesPerTable, level + 1)
                   ELSE W,
                   node.addr)

FreeEntries(W, table, i, n, level) ==
    IF i = n THEN W
    ELSE FreeEntries(IF W.mem[table][i].present
                     THEN free_page_tree(W, W.mem[table][i], level)
                     ELSE W,
                     table, i + 1, n, level)

\* Drop for UserPageMapper, then Drop for the OwnedPhysicalPage of its PML4.
drop(W) ==
    [free_page(FreeEntries(W, FrameOf(W.pml4), 0, EntriesPerTable \div 2, 0), W.pml4)
        EXCEPT !.pml4 = NONE]

\* Whether the leaf entry of virtual_address is present (a walk of the tables).
LeafPresent(W, virtual_address) ==
    UnmapWalk(W, 0, W.pml4, virtual_address, <<>>) # <<>>

\* free_table_check_depth of the two mem tasks for two consecutive pages:
\* 4 - i for the first level i whose index differs, else 0.
CheckDepth(page_address, next_page_address) ==
    IF \E i \in 0 .. 3 : LevelIndex(i, page_address) # LevelIndex(i, next_page_address)
    THEN 4 - (CHOOSE i \in 0 .. 3 :
                /\ LevelIndex(i, page_address) # LevelIndex(i, next_page_address)
                /\ \A j \in 0 .. (i - 1) :
                      LevelIndex(j, page_address) = LevelIndex(j, next_page_address))
    ELSE 0

\* ------------------------------------------------------------ mem tasks
NoFlags == [read |-> FALSE, write |-> FALSE, execute |-> FALSE]

\* MapMemTask::new
NewMapMemTask(start_address, num_pages, flags) ==
    [kind |-> "map", start_address |-> start_address,
     current_address |-> start_address, pages_allocated |-> 0,
     state |-> "Mapping", pages_left |-> num_pages, flags |-> flags,
     pages_freed |-> 0]

\* UnmapMemTask::new (with the start_address field of the UnmapTask around it)
NewUnmapMemTask(start_address, num_pages) ==
    [kind |-> "unmap", start_address |-> start_address,
     current_address |-> start_address, pages_allocated |-> 0,
     state |-> "Unmapping", pages_left |-> num_pages, flags |-> NoFlags,
     pages_freed |-> 0]

Halt(W, f) == IF W.fault = "none" THEN [W EXCEPT !.fault = f] ELSE W

\* MapMemTask::run.  should_suspend answers false suspend_after times, then
\* true.  poll is "Pending", "Ok", "OutOfMemory" or "Panic".
RECURSIVE MapMemTaskRun(_, _, _)
MapMemTaskRun(W, t, suspend_after) ==
    IF suspend_after = 0 THEN [W |-> W, t |-> t, poll |-> "Pending"]
    ELSE IF t.state = "Mapping"
    THEN LET page_address == t.current_address
             next_page_address == page_address + PAGE_SIZE
         IN Only({
            IF r.res = "OutOfMemory"
            THEN MapMemTaskRun(r.W,
                     [t EXCEPT !.pages_allocated = r.pages_used,
                               !.current_address = SaturatingSub(page_address, PAGE_SIZE),
                               !.state = "FailRewinding"],
                     suspend_after - 1)
            ELSE IF r.res = "PageAlreadyExists"
            THEN [W |-> Halt(r.W, "panic"), t |-> t, poll |-> "Panic"]
            ELSE LET t1 == [t EXCEPT !.pages_allocated = r.pages_used,
                                     !.current_address = next_page_address,
                                     !.pages_left = @ - 1]
                 IN IF t1.pages_left = 0
                    THEN [W |-> r.W, t |-> t1, poll |-> "Ok"]
                    ELSE MapMemTaskRun(r.W, t1, suspend_after - 1)
            : r \in {map_blank_page(W, page_address, FlagsEntry(t.flags),
                                    t.pages_allocated)}})
    ELSE LET page_address == t.current_address
             next_page_address == SaturatingSub(page_address, PAGE_SIZE)
             free_table_check_depth ==
                 IF page_address = t.start_address THEN 3
                 ELSE CheckDepth(page_address, next_page_address)
         IN Only({
            LET t1 == [t EXCEPT !.pages_allocated = @ - r.pages_freed,
                                !.current_address = next_page_address]
            IN IF page_address = t.start_address
               THEN [W |-> r.W, t |-> t1, poll |-> "OutOfMemory"]
               ELSE MapMemTaskRun(r.W, t1, suspend_after - 1)
            : r \in {unmap_page(W, page_address, free_table_check_depth)}})

\* UnmapMemTask::run with pages_freed a local of run, counted from 0 in
\* every call.
RECURSIVE UnmapLoopLocal(_, _, _)
UnmapLoopLocal(W, t, suspend_after) ==
    IF suspend_after = 0 THEN [W |-> W, t |-> t, poll |-> "Pending"]
    ELSE LET page_address == t.current_address
             next_page_address == page_address + PAGE_SIZE
             free_table_check_depth ==
                 IF t.pages_left = 0 THEN 3
                 ELSE CheckDepth(page_address, next_page_address)
         IN Only({
            LET t1 == [t EXCEPT !.pages_freed = @ + r.pages_freed,
                                !.current_address = next_page_address,
                                !.pages_left = @ - 1]
            IN IF t1.pages_left = 0
               THEN [W |-> r.W, t |-> t1, poll |-> "Ready"]
               ELSE UnmapLoopLocal(r.W, t1, suspend_after - 1)
            : r \in {unmap_page(W, page_address, free_table_check_depth)}})

UnmapMemTaskRun_LocalCount(W, t, suspend_after) ==
    UnmapLoopLocal(W, [t EXCEPT !.pages_freed = 0], suspend_after)

\* UnmapMemTask::run, with should_suspend as in MapMemTaskRun.
RECURSIVE UnmapMemTaskRun(_, _, _)
UnmapMemTaskRun(W, t, suspend_after) ==
    IF suspend_after = 0 THEN [W |-> W, t |-> t, poll |-> "Pending"]
    ELSE LET page_address == t.current_address
             next_page_address == page_address + PAGE_SIZE
             free_table_check_depth ==
                 IF t.pages_left = 0 THEN 3
                 ELSE CheckDepth(page_address, next_page_address)
         IN Only({
            LET t1 == [t EXCEPT !.pages_freed = @ + r.pages_freed,
                                !.current_address = next_page_address,
                                !.pages_left = @ - 1]
            IN IF t1.pages_left = 0
               THEN [W |-> r.W, t |-> t1, poll |-> "Ready"]
               ELSE UnmapMemTaskRun(r.W, t1, suspend_after - 1)
            : r \in {unmap_page(W, page_address, free_table_check_depth)}})

\* ------------------------------------------------------------ node storage
\* A NodePtr is a slot number: TEMP is NodeStorageList::temp_node, and entry
\* i of the storage page in frame f is f * MAX_NODES + i + 1.
TEMP == 0

Slot(frame, i) == frame * MAX_NODES + i + 1

SlotFrame(ptr) == (ptr - 1) \div MAX_NODES

SlotIndex(ptr) == (ptr - 1) % MAX_NODES

NoNodeFlags == [readable |-> FALSE, writable |-> FALSE, executable |-> FALSE,
                locked |-> FALSE]

\* From<SegmentFlags> for NodeFlags
NodeFlagsFrom(flags) == [readable |-> flags.read, writable |-> flags.write,
                         executable |-> flags.execute, locked |-> FALSE]

LeafEmpty(size) == [tag |-> "Empty", pivot |-> 0, color |-> "Black",
                    is_temp_null |-> FALSE, max_empty_area_size |-> 0,
                    parent |-> NONE, left |-> NONE, right |-> NONE,
                    size |-> size, flags |-> NoNodeFlags]

LeafUsed(flags) == [tag |-> "Used", pivot |-> 0, color |-> "Black",
                    is_temp_null |-> FALSE, max_empty_area_size |-> 0,
                    parent |-> NONE, left |-> NONE, right |-> NONE,
                    size |-> 0, flags |-> flags]

\* BranchNode::new
BranchNew(pivot, is_temp_null, color, parent, left, right) ==
    [tag |-> "Branch", pivot |-> pivot, color |-> color,
     is_temp_null |-> is_temp_null, max_empty_area_size |-> 0,
     parent |-> parent, left |-> left, right |-> right,
     size |-> 0, flags |-> NoNodeFlags]

\* Node::placeholder
Placeholder == LeafEmpty(0)

BITMAP_LEN == (MAX_NODES \div 8) + (IF MAX_NODES % 8 > 0 THEN 1 ELSE 0)

\* NodeStoragePage::INITIAL_USAGE_BITMAP: the last byte is
\* !((0x80 >> (last_byte_entries - 1)) - 1).
INITIAL_USAGE_BITMAP ==
    [b \in 0 .. (BITMAP_LEN - 1) |->
        IF MAX_NODES % 8 # 0 /\ b = BITMAP_LEN - 1
        THEN 255 - (Pow2(7 - ((MAX_NODES % 8) - 1)) - 1)
        ELSE 0]

\* NodeStoragePage::new_with_prev_page
NewStoragePage(prev_page) ==
    [next_page |-> NONE, prev_page |-> prev_page, free_entries |-> MAX_NODES,
     usage_bitmap |-> INITIAL_USAGE_BITMAP]

PageSlots(frame) == {Slot(frame, i) : i \in 0 .. (MAX_NODES - 1)}

\* The node a pointer refers to; memory outside every live storage page reads
\* as a placeholder.
Node(W, ptr) == IF ptr \in DOMAIN W.node THEN W.node[ptr] ELSE Placeholder

\* NodePtr::write
WriteNode(W, ptr, value) ==
    IF W.fault # "none" THEN W
    ELSE IF ptr \in DOMAIN W.node THEN [W EXCEPT !.node[ptr] = value]
    ELSE Halt(W, "ub")

is_branch(W, ptr) == Node(W, ptr).tag = "Branch"

is_leaf(W, ptr) == Node(W, ptr).tag # "Branch"

is_empty_leaf(W, ptr) == Node(W, ptr).tag = "Empty"

is_used_leaf(W, ptr) == Node(W, ptr).tag = "Used"

\* NodePtr::color: a leaf is black.
ColorOf(W, ptr) == IF is_branch(W, ptr) THEN Node(W, ptr).color ELSE "Black"

\* NodeStoragePage::find_and_reserve_node on the page in frame.
PageFindAndReserveNode(W, frame) ==
    LET page == W.pages[frame]
        free_bytes == {b \in 0 .. (BITMAP_LEN - 1) : page.usage_bitmap[b] # 255}
    IN IF page.free_entries = 0 \/ free_bytes = {}
       THEN [W |-> Halt(W, "panic"), ok |-> FALSE, ptr |-> NONE]
       ELSE LET byte_index == CHOOSE b \in free_bytes : \A c \in free_bytes : b <= c
                bit_index == FirstClearBit(page.usage_bitmap[byte_index])
                entry_index == byte_index * 8 + bit_index
                W1 == [W EXCEPT
                         !.pages[frame].usage_bitmap[byte_index] = SetBit(@, bit_index),
                         !.pages[frame].free_entries = @ - 1]
            IN IF entry_index >= MAX_NODES
               THEN [W |-> Halt(W1, "panic"), ok |-> FALSE, ptr |-> NONE]
               ELSE [W |-> W1, ok |-> TRUE, ptr |-> Slot(frame, entry_index)]

\* The page walk of NodeStorageList::find_and_reserve_node: the first page
\* with free_entries > 0, or the last page of the list.
RECURSIVE FindStoragePage(_, _, _)
FindStoragePage(W, frame, fuel) ==
    IF W.pages[frame].free_entries > 0 \/ W.pages[frame].next_page = NONE \/ fuel = 0
    THEN frame
    ELSE FindStoragePage(W, W.pages[frame].next_page, fuel - 1)

\* NodeStorageList::find_and_reserve_node
find_and_reserve_node(W) ==
    IF W.fault # "none" THEN [W |-> W, ok |-> FALSE, ptr |-> NONE]
    ELSE
    LET current_page == FindStoragePage(W, W.head, MaxFuel)
    IN IF W.pages[current_page].free_entries > 0
       THEN PageFindAndReserveNode(W, current_page)
       ELSE Only({
            IF ~r.ok
            THEN [W |-> [W EXCEPT !.pages_used = @ + 1], ok |-> FALSE, ptr |-> NONE]
            ELSE LET new_frame == FrameOf(r.addr)
                     W1 == [r.W EXCEPT
                              !.pages = [f \in (DOMAIN @) \cup {new_frame} |->
                                           IF f = new_frame
                                           THEN NewStoragePage(current_page)
                                           ELSE @[f]],
                              !.node = [q \in (DOMAIN @) \cup PageSlots(new_frame) |->
                                           IF q \in PageSlots(new_frame)
                                           THEN Placeholder ELSE @[q]]]
                 IN Only({[W |-> [n.W EXCEPT !.pages[current_page].next_page = new_frame],
                           ok |-> n.ok, ptr |-> n.ptr]
                          : n \in {PageFindAndReserveNode(W1, new_frame)}})
            : r \in {find_and_reserve_page([W EXCEPT !.pages_used = @ + 1])}})

\* unreserve_node without the test for the head page: an empty page is
\* unlinked and dropped whether or not it has a previous page.
UnreserveNode_AnyPage(W, frame, i) ==
    LET page == W.pages[frame]
    IN IF page.free_entries + 1 = MAX_NODES
       THEN LET W1 == IF page.next_page # NONE
                      THEN [W EXCEPT !.pages[page.next_page].prev_page = page.prev_page]
                      ELSE W
                W2 == IF page.prev_page # NONE
                      THEN [W1 EXCEPT !.pages[page.prev_page].next_page = page.next_page]
                      ELSE W1
                W3 == [W2 EXCEPT
                         !.pages = [f \in (DOMAIN @) \ {frame} |-> @[f]],
                         !.node = [q \in (DOMAIN @) \ PageSlots(frame) |-> @[q]]]
            IN free_page(W3, frame * PAGE_SIZE)
       ELSE [W EXCEPT
               !.pages[frame].usage_bitmap[i \div 8] = ClearBit(@, i % 8),
               !.pages[frame].free_entries = @ + 1]

\* NodeStoragePage::unreserve_node followed by the drop of the page in
\* NodePtr::free.
UnreserveNode(W, frame, i) ==
    LET page == W.pages[frame]
    IN IF page.free_entries + 1 = MAX_NODES /\ page.prev_page # NONE
       THEN LET W1 == IF page.next_page # NONE
                      THEN [W EXCEPT !.pages[page.next_page].prev_page = page.prev_page]
                      ELSE W
                W2 == [W1 EXCEPT !.pages[page.prev_page].next_page = page.next_page]
                W3 == [W2 EXCEPT
                         !.pages = [f \in (DOMAIN @) \ {frame} |-> @[f]],
                         !.node = [q \in (DOMAIN @) \ PageSlots(frame) |-> @[q]]]
            IN free_page(W3, frame * PAGE_SIZE)
       ELSE [W EXCEPT
               !.pages[frame].usage_bitmap[i \div 8] = ClearBit(@, i % 8),
               !.pages[frame].free_entries = @ + 1]

\* NodePtr::free.  The storage page is found from the pointer's address:
\* for temp_node, which lies in no storage page, that is undefined behaviour:
\* unreserve_node then works on the page around the allocator itself.  W.ub
\* is what the build makes of it: "silent" (the stray bit and counter land
\* outside the allocator's fields) or "crash".
FreeNode(W, ptr) ==
    IF W.fault # "none" THEN W
    ELSE IF ptr = TEMP
    THEN IF W.ub = "silent" THEN [W EXCEPT !.node[TEMP] = Placeholder]
         ELSE Halt([W EXCEPT !.node[TEMP] = Placeholder], "ub")
    ELSE IF ptr \notin DOMAIN W.node
    THEN Halt(W, "ub")
    ELSE UnreserveNode([W EXCEPT !.node[ptr] = Placeholder],
                       SlotFrame(ptr), SlotIndex(ptr))

\* ---------------------------------------------------------------- VMA tree
\* The while loop of VMATree::get_leaf_containing.  hang is TRUE when the
\* descent meets more branches than there are nodes: the loop does not end.
RECURSIVE Descend(_, _, _, _, _, _, _, _)
Descend(W, addr, current_node, parent, side, current_start, current_end, fuel) ==
    LET branch == Node(W, current_node)
    IN IF branch.tag # "Branch" \/ fuel = 0
       THEN [leaf |-> current_node, parent |-> parent, side |-> side,
             start |-> current_start, end |-> current_end - 1,
             hang |-> branch.tag = "Branch"]
       ELSE IF addr < branch.pivot
       THEN Descend(W, addr, branch.left, current_node, "Left",
                    current_start, branch.pivot, fuel - 1)
       ELSE Descend(W, addr, branch.right, current_node, "Right",
                    branch.pivot, current_end, fuel - 1)

\* VMATree::get_leaf_containing: a LeafInfo, parent = NONE for a root leaf.
get_leaf_containing(W, addr) ==
    Descend(W, addr, W.root, NONE, "Left", 0, HIGHEST_USER_ADDRESS + 1, MaxFuel)

Not(side) == IF side = "Left" THEN "Right" ELSE "Left"

\* BranchNode indexed by a Side
Child(W, branch, side) ==
    IF side = "Left" THEN Node(W, branch).left ELSE Node(W, branch).right

SetChild(W, branch, side, ptr) ==
    IF W.fault # "none" THEN W
    ELSE IF ~is_branch(W, branch) THEN Halt(W, "ub")
    ELSE IF side = "Left" THEN [W EXCEPT !.node[branch].left = ptr]
    ELSE [W EXCEPT !.node[branch].right = ptr]

\* BranchNodePtr::set_color (through unwrap_branch where the code has a NodePtr)
set_color(W, branch, color) ==
    IF W.fault # "none" THEN W
    ELSE IF ~is_branch(W, branch) THEN Halt(W, "ub")
    ELSE [W EXCEPT !.node[branch].color = color]

SetParent(W, branch, parent) ==
    IF W.fault # "none" THEN W
    ELSE IF ~is_branch(W, branch) THEN Halt(W, "ub")
    ELSE [W EXCEPT !.node[branch].parent = parent]

\* The value a child contributes to max_empty_area_size.
ChildMaxEmpty(W, child) ==
    LET n == Node(W, child)
    IN IF n.tag = "Branch" THEN n.max_empty_area_size
       ELSE IF n.tag = "Used" THEN 0 ELSE n.size

\* BranchNodePtr::recalculate_max_empty_area_size
recalculate_max_empty_area_size(W, branch) ==
    IF W.fault # "none" THEN W
    ELSE IF ~is_branch(W, branch) THEN Halt(W, "ub")
    ELSE [W EXCEPT !.node[branch].max_empty_area_size =
                      Max(ChildMaxEmpty(W, Node(W, branch).left),
                          ChildMaxEmpty(W, Node(W, branch).right))]

\* VMATree::update_max_empty_area_data
RECURSIVE UpdateMaxUp(_, _, _)
UpdateMaxUp(W, branch_ptr, fuel) ==
    IF W.fault # "none" \/ branch_ptr = NONE THEN W
    ELSE IF fuel = 0 THEN Halt(W, "hang")
    ELSE UpdateMaxUp(recalculate_max_empty_area_size(W, branch_ptr),
                     Node(W, branch_ptr).parent, fuel - 1)

update_max_empty_area_data(W, lowest_branch) == UpdateMaxUp(W, lowest_branch, MaxFuel)

\* BranchNodePtr::is_left_side / is_right_side: "none" without a parent.
SideOf(W, branch) ==
    LET parent == Node(W, branch).parent
    IN IF parent = NONE THEN "none"
       ELSE IF Node(W, parent).left = branch THEN "Left"
       ELSE IF Node(W, parent).right = branch THEN "Right"
       ELSE "neither"

\* The re-linking shared by left_rotate, right_rotate and replace_node:
\* the parent's edge to old (or the root) now points to new_node.
Relink(W, old, new_node) ==
    IF W.fault # "none" THEN W
    ELSE LET parent == Node(W, old).parent
         IN IF parent = NONE THEN [W EXCEPT !.root = new_node]
            ELSE IF Node(W, parent).left = old
            THEN SetChild(W, parent, "Left", new_node)
            ELSE SetChild(W, parent, "Right", new_node)

\* VMATree::left_rotate (side = "Left") and VMATree::right_rotate ("Right"):
\* the child on the other side moves up.
Rotate(W, node, side) ==
    IF W.fault # "none" THEN W
    ELSE
    LET up == Child(W, node, Not(side))
        inner == Child(W, up, side)
    IN IF ~is_branch(W, node) \/ ~is_branch(W, up) THEN Halt(W, "ub")
       ELSE Only({
            LET W2 == IF is_branch(W1, inner) THEN SetParent(W1, inner, node) ELSE W1
                W3 == SetParent(W2, up, Node(W2, node).parent)
            IN recalculate_max_empty_area_size(
                   recalculate_max_empty_area_size(
                       SetParent(SetChild(Relink(W3, node, up), up, side, node),
                                 node, up),
                       node),
                   up)
            : W1 \in {SetChild(W, node, Not(side), inner)}})

left_rotate(W, node) == Rotate(W, node, "Left")

right_rotate(W, node) == Rotate(W, node, "Right")

\* One iteration of the while loop of VMATree::fix_insert, for k's parent on
\* side pside of the grandparent: [W, k] after the iteration.
FixInsertStep(W, k, pside) ==
    LET parent == Node(W, k).parent
        grandparent == Node(W, parent).parent
        u == Child(W, grandparent, Not(pside))
    IN IF ColorOf(W, u) = "Red"
       THEN [W |-> set_color(set_color(set_color(W, u, "Black"), parent, "Black"),
                             grandparent, "Red"),
             k |-> grandparent]
       ELSE LET inner == Child(W, parent, Not(pside)) = k
                k1 == IF inner THEN parent ELSE k
            IN Only({
               LET p1 == Node(W1, k1).parent
                   g1 == IF p1 = NONE THEN NONE ELSE Node(W1, p1).parent
               IN IF W1.fault = "none" /\ (p1 = NONE \/ g1 = NONE)
                  THEN [W |-> Halt(W1, "panic"), k |-> k1]
                  ELSE [W |-> Rotate(set_color(set_color(W1, p1, "Black"), g1, "Red"),
                                     g1, Not(pside)),
                        k |-> k1]
               : W1 \in {IF inner THEN Rotate(W, k1, pside) ELSE W}})

\* The while loop of VMATree::fix_insert.
RECURSIVE FixInsertLoop(_, _, _)
FixInsertLoop(W, k, fuel) ==
    IF W.fault # "none" THEN W
    ELSE IF fuel = 0 THEN Halt(W, "hang")
    ELSE LET parent == Node(W, k).parent
             grandparent == IF parent = NONE THEN NONE ELSE Node(W, parent).parent
         IN IF parent = NONE THEN Halt(W, "panic")
            ELSE IF Node(W, parent).color # "Red" THEN W
            ELSE IF grandparent = NONE THEN Halt(W, "panic")
            ELSE Only({IF r.k = r.W.root THEN r.W
                       ELSE FixInsertLoop(r.W, r.k, fuel - 1)
                       : r \in {FixInsertStep(W, k,
                                    IF Node(W, grandparent).right = parent
                                    THEN "Right" ELSE "Left")}})

\* fix_insert without the fix-up.
fix_insert_None(W, node) == W

\* VMATree::fix_insert
fix_insert(W, node) ==
    IF W.fault # "none" THEN W
    ELSE IF ~is_branch(W, node) THEN Halt(W, "panic")
    ELSE Only({set_color(W1, W1.root, "Black")
               : W1 \in {FixInsertLoop(W, node, MaxFuel)}})

\* VMATree::link_in_branch
link_in_branch(W, new_branch, new_parent, side) ==
    IF W.fault # "none" THEN W
    ELSE update_max_empty_area_data(
             IF new_parent # NONE
             THEN Only({IF Node(Wb, new_parent).parent # NONE
                        THEN fix_insert(Wb, new_branch)
                        ELSE Wb
                        : Wb \in {set_color(SetChild(W, new_parent, side, new_branch),
                                            new_branch, "Red")}})
             ELSE [W EXCEPT !.root = new_branch],
             new_branch)

\* LeafNodePtr::unwrap_empty_set_size
unwrap_empty_set_size(W, leaf, new_size) ==
    IF W.fault # "none" THEN W
    ELSE IF ~is_empty_leaf(W, leaf) THEN Halt(W, "ub")
    ELSE [W EXCEPT !.node[leaf].size = new_size]

\* NodeStorageList::new_used_leaf, new_empty_leaf, new_branch: reserve a node
\* and write value into it.
NewNode(W, value) ==
    Only({IF r.ok THEN [W |-> WriteNode(r.W, r.ptr, value), ok |-> TRUE, ptr |-> r.ptr]
          ELSE r
          : r \in {find_and_reserve_node(W)}})

RECURSIVE FreeNodes(_, _)
FreeNodes(W, ptrs) ==
    IF ptrs = <<>> THEN W ELSE FreeNodes(FreeNode(W, Head(ptrs)), Tail(ptrs))

InsertErr(W) == [W |-> W, ok |-> FALSE, leaf |-> NONE]

\* The second and third case of VMATree::insert: one Used leaf and one branch;
\* the Used leaf goes on used_side of the branch.
InsertAligned(W, info, pivot, new_size, used_side, flags) ==
    Only({
    IF ~u.ok THEN InsertErr(u.W)
    ELSE Only({
         IF ~b.ok THEN InsertErr(FreeNode(b.W, u.ptr))
         ELSE [W |-> link_in_branch(unwrap_empty_set_size(b.W, info.leaf, new_size),
                                    b.ptr, info.parent, info.side),
               ok |-> TRUE, leaf |-> u.ptr]
         : b \in {NewNode(u.W,
                     IF used_side = "Right"
                     THEN BranchNew(pivot, FALSE, "Black", info.parent, info.leaf, u.ptr)
                     ELSE BranchNew(pivot, FALSE, "Black", info.parent, u.ptr, info.leaf))}})
    : u \in {NewNode(W, LeafUsed(flags))}})

\* The fourth case of VMATree::insert: the range lies strictly inside the gap.
InsertInside(W, info, start, end, flags) ==
    Only({
    IF ~u.ok THEN InsertErr(u.W)
    ELSE Only({
    IF ~e.ok THEN InsertErr(FreeNode(e.W, u.ptr))
    ELSE Only({
    IF ~b.ok THEN InsertErr(FreeNodes(b.W, <<e.ptr, u.ptr>>))
    ELSE Only({
    IF ~s.ok THEN InsertErr(FreeNodes(s.W, <<b.ptr, e.ptr, u.ptr>>))
    ELSE Only({
         Only({
         [W |-> link_in_branch(
                    unwrap_empty_set_size(
                        WriteNode(IF info2.hang THEN Halt(W1, "hang") ELSE W1, s.ptr,
                                  BranchNew(start, FALSE, "Black", info2.parent,
                                            info.leaf, info2.leaf)),
                        info.leaf, start - info.start),
                    s.ptr, info2.parent, info2.side),
          ok |-> TRUE, leaf |-> info2.leaf]
         : info2 \in {get_leaf_containing(W1, start)}})
         : W1 \in {link_in_branch(s.W, b.ptr, info.parent, info.side)}})
    : s \in {find_and_reserve_node(b.W)}})
    : b \in {NewNode(e.W, BranchNew(end + 1, FALSE, "Black", info.parent,
                                    u.ptr, e.ptr))}})
    : e \in {NewNode(u.W, LeafEmpty(info.end - end))}})
    : u \in {NewNode(W, LeafUsed(flags))}})

\* VMATree::insert: [W, ok, leaf]; ok = FALSE is Err(OutOfMemory).
insert(W, start, len, flags) ==
    Only({
    LET end == start + len - 1
    IN IF W.fault # "none" THEN InsertErr(W)
       ELSE IF info.hang THEN InsertErr(Halt(W, "hang"))
       ELSE IF ~is_empty_leaf(W, info.leaf) \/ info.start > start \/ end > info.end
       THEN InsertErr(Halt(W, "panic"))
       ELSE IF info.start = start /\ end = info.end
       THEN [W |-> IF info.parent # NONE
                   THEN update_max_empty_area_data(
                            WriteNode(W, info.leaf, LeafUsed(flags)), info.parent)
                   ELSE WriteNode(W, info.leaf, LeafUsed(flags)),
             ok |-> TRUE, leaf |-> info.leaf]
       ELSE IF info.start < start /\ end = info.end
       THEN InsertAligned(W, info, start, start - info.start, "Right", flags)
       ELSE IF info.start = start /\ end < info.end
       THEN InsertAligned(W, info, end + 1, info.end - end, "Left", flags)
       ELSE InsertInside(W, info, start, end, flags)
    : info \in {get_leaf_containing(W, start)}})

\* VMATree::find_min
RECURSIVE FindMin(_, _, _)
FindMin(W, node, fuel) ==
    IF fuel = 0 \/ ~is_branch(W, Node(W, node).left) THEN node
    ELSE FindMin(W, Node(W, node).left, fuel - 1)

find_min(W, node) == FindMin(W, node, MaxFuel)

\* VMATree::min_leaf ("Left") and VMATree::max_leaf ("Right")
RECURSIVE EdgeLeaf(_, _, _, _)
EdgeLeaf(W, node, side, fuel) ==
    IF fuel = 0 \/ ~is_branch(W, node) THEN node
    ELSE EdgeLeaf(W, Child(W, node, side), side, fuel - 1)

min_leaf(W, node) == EdgeLeaf(W, node, "Left", MaxFuel)

max_leaf(W, node) == EdgeLeaf(W, node, "Right", MaxFuel)

\* VMATree::replace_node
replace_node(W, old_branch, new_node) ==
    LET W1 == Relink(W, old_branch, new_node)
    IN IF is_branch(W1, new_node)
       THEN SetParent(W1, new_node, Node(W1, old_branch).parent)
       ELSE W1

\* VMATree::delete_node_with_zero_or_one_child: [W, moved_up_node, parent]
delete_node_with_zero_or_one_child(W, node) ==
    LET parent == Node(W, node).parent
        left == Node(W, node).left
        right == Node(W, node).right
    IN IF is_branch(W, left)
       THEN [W |-> FreeNode(replace_node(W, node, left), right),
             moved_up_node |-> left, parent |-> parent]
       ELSE IF is_branch(W, right)
       THEN [W |-> FreeNode(replace_node(W, node, right), left),
             moved_up_node |-> right, parent |-> parent]
       ELSE IF Node(W, node).color = "Black"
       THEN LET W1 == WriteNode(W, TEMP,
                          BranchNew(0, TRUE, "Black", NONE, left, right))
            IN [W |-> replace_node(W1, node, TEMP),
                moved_up_node |-> TEMP, parent |-> parent]
       ELSE IF is_used_leaf(W, left)
       THEN [W |-> replace_node(FreeNode(W, right), node, left),
             moved_up_node |-> left, parent |-> parent]
       ELSE [W |-> replace_node(FreeNode(W, left), node, right),
             moved_up_node |-> right, parent |-> parent]

\* BranchNodePtr::get_sibling: NONE where the code panics.
get_sibling(W, node) ==
    LET parent == Node(W, node).parent
    IN IF parent = NONE THEN NONE
       ELSE IF Node(W, parent).left = node THEN Node(W, parent).right
       ELSE IF Node(W, parent).right = node THEN Node(W, parent).left
       ELSE NONE

\* VMATree::handle_red_sibling
handle_red_sibling(W, node, sibling) ==
    Only({LET side == SideOf(W2, node)
          IN IF side \in {"Left", "Right"}
             THEN Rotate(W2, Node(W, node).parent, side)
             ELSE Halt(W2, "panic")
          : W2 \in {set_color(set_color(W, sibling, "Black"),
                              Node(W, node).parent, "Red")}})

\* VMATree::handle_black_sibling_at_least_one_red_child
handle_black_sibling_at_least_one_red_child(W, node, sibling0) ==
    LET parent == Node(W, node).parent
        s == IF Node(W, parent).left = node THEN "Left" ELSE "Right"
        turn == ColorOf(W, Child(W, sibling0, Not(s))) = "Black"
    IN IF parent = NONE THEN Halt(W, "panic")
       ELSE Only({
            LET p1 == Node(W1, node).parent
                sibling == IF turn THEN Child(W1, p1, Not(s)) ELSE sibling0
            IN Only({Rotate(W4, Node(W4, node).parent, s)
                     : W4 \in {set_color(
                                  set_color(
                                      set_color(W1, sibling, Node(W1, p1).color),
                                      p1, "Black"),
                                  Child(W1, sibling, Not(s)), "Black")}})
            : W1 \in {IF turn
                      THEN Rotate(set_color(set_color(W, Child(W, sibling0, s), "Black"),
                                            sibling0, "Red"),
                                  sibling0, Not(s))
                      ELSE W}})

\* The loop of VMATree::fix_delete.  unwrap_branch of a sibling that is a leaf
\* is undefined behaviour of its own kind: fault = "leaf_sibling".
RECURSIVE FixDeleteLoop(_, _, _)
FixDeleteLoop(W, node, fuel) ==
    IF W.fault # "none" THEN W
    ELSE IF node = W.root THEN set_color(W, node, "Black")
    ELSE IF fuel = 0 THEN Halt(W, "hang")
    ELSE
    LET sibling0 == get_sibling(W, node)
    IN IF sibling0 = NONE THEN Halt(W, "panic")
       ELSE IF ~is_branch(W, sibling0) THEN Halt(W, "leaf_sibling")
       ELSE Only({
            LET sibling == IF Node(W, sibling0).color = "Red"
                           THEN get_sibling(W1, node) ELSE sibling0
                parent == Node(W1, node).parent
            IN IF W1.fault # "none" THEN W1
               ELSE IF sibling = NONE THEN Halt(W1, "panic")
               ELSE IF ~is_branch(W1, sibling) THEN Halt(W1, "leaf_sibling")
               ELSE IF ColorOf(W1, Node(W1, sibling).left) = "Black"
                       /\ ColorOf(W1, Node(W1, sibling).right) = "Black"
               THEN IF Node(W1, parent).color = "Red"
                    THEN set_color(set_color(W1, sibling, "Red"), parent, "Black")
                    ELSE FixDeleteLoop(set_color(W1, sibling, "Red"), parent, fuel - 1)
               ELSE handle_black_sibling_at_least_one_red_child(W1, node, sibling)
            : W1 \in {IF Node(W, sibling0).color = "Red"
                      THEN handle_red_sibling(W, node, sibling0) ELSE W}})

\* fix_delete without the fix-up.
fix_delete_None(W, node) == W

\* VMATree::fix_delete
fix_delete(W, node) == FixDeleteLoop(W, node, MaxFuel)

\* The collapse of the temp_node sentinel at the end of delete_branch.
CollapseTemp(W, moved_up_node) ==
    LET left_child == Node(W, moved_up_node).left
        right_child == Node(W, moved_up_node).right
        kept == IF is_used_leaf(W, left_child) THEN left_child ELSE right_child
        W1 == WriteNode(W, moved_up_node, Node(W, kept))
    IN FreeNode(FreeNode(W1, left_child), right_child)

\* VMATree::delete_branch
delete_branch(W, branch) ==
    IF W.fault # "none" THEN W
    ELSE
    LET two == is_branch(W, Node(W, branch).left) /\ is_branch(W, Node(W, branch).right)
        successor == IF two THEN find_min(W, Node(W, branch).right) ELSE branch
        W1 == IF two
              THEN [W EXCEPT !.node[branch].pivot = Node(W, successor).pivot,
                             !.node[branch].max_empty_area_size =
                                 Node(W, successor).max_empty_area_size]
              ELSE W
    IN Only({
       LET delete_node_color == Node(r.W, successor).color
       IN Only({
          IF r.parent # NONE THEN update_max_empty_area_data(W3, r.parent) ELSE W3
          : W3 \in {IF delete_node_color = "Black"
                    THEN Only({
                         IF ~is_branch(W2, r.moved_up_node) THEN Halt(W2, "ub")
                         ELSE Only({IF Wf.fault = "none"
                                       /\ Node(Wf, r.moved_up_node).is_temp_null
                                    THEN CollapseTemp(Wf, r.moved_up_node)
                                    ELSE Wf
                                    : Wf \in {fix_delete(W2, r.moved_up_node)}})
                         : W2 \in {FreeNode(r.W, successor)}})
                    ELSE FreeNode(r.W, successor)}})
       : r \in {delete_node_with_zero_or_one_child(W1, successor)}})

\* The two leaves' sizes are combined and written to both.
CombineSizes(W, a, b) ==
    LET combined_size == Node(W, a).size + Node(W, b).size
    IN unwrap_empty_set_size(unwrap_empty_set_size(W, a, combined_size),
                             b, combined_size)

\* The inner while loop of delete's gap_join_loop: the lowest ancestor whose
\* two leaves next to its pivot are both Empty, or NONE.
RECURSIVE FindJoin(_, _, _)
FindJoin(W, branch, fuel) ==
    IF branch = NONE \/ fuel = 0 THEN NONE
    ELSE IF is_empty_leaf(W, max_leaf(W, Node(W, branch).left))
            /\ is_empty_leaf(W, min_leaf(W, Node(W, branch).right))
    THEN branch
    ELSE FindJoin(W, Node(W, branch).parent, fuel - 1)

\* gap_join_loop of VMATree::delete
RECURSIVE GapJoinLoop(_, _, _)
GapJoinLoop(W, addr, fuel) ==
    IF W.fault # "none" THEN W
    ELSE IF fuel = 0 THEN Halt(W, "hang")
    ELSE Only({
         IF info.hang THEN Halt(W, "hang")
         ELSE Only({
              LET branch == FindJoin(W1, info.parent, MaxFuel)
              IN IF branch = NONE THEN W1
                 ELSE GapJoinLoop(
                          delete_branch(
                              CombineSizes(W1, max_leaf(W1, Node(W1, branch).left),
                                           min_leaf(W1, Node(W1, branch).right)),
                              branch),
                          addr, fuel - 1)
              : W1 \in {IF info.parent # NONE
                        THEN update_max_empty_area_data(W, info.parent) ELSE W}})
         : info \in {get_leaf_containing(W, addr)}})

\* VMATree::delete
delete(W, addr) ==
    Only({
    IF W.fault # "none" THEN W
    ELSE IF info.hang THEN Halt(W, "hang")
    ELSE IF ~is_used_leaf(W, info.leaf) THEN Halt(W, "panic")
    ELSE
    LET W1 == WriteNode(W, info.leaf, LeafEmpty(info.end + 1 - info.start))
        sibling == Child(W1, info.parent, Not(info.side))
    IN IF info.parent = NONE THEN W1
       ELSE GapJoinLoop(IF is_empty_leaf(W1, sibling)
                        THEN delete_branch(CombineSizes(W1, info.leaf, sibling),
                                           info.parent)
                        ELSE W1,
                        addr, MaxFuel)
    : info \in {get_leaf_containing(W, addr)}})

\* start_unmap as it would be if the error path cleared the lock it found.
start_unmap_UnlockOnError(W, segment_address) ==
    LET none == NewUnmapMemTask(0, 0)
    IN Only({
       IF info.hang THEN [W |-> Halt(W, "hang"), res |-> "Hang", task |-> none]
       ELSE IF is_empty_leaf(W, info.leaf)
       THEN [W |-> W, res |-> "SegmentAlreadyUnmapped", task |-> none]
       ELSE IF Node(W, info.leaf).flags.locked
       THEN [W |-> [W EXCEPT !.node[info.leaf].flags.locked = FALSE],
             res |-> "SegmentLocked", task |-> none]
       ELSE [W |-> [W EXCEPT !.node[info.leaf].flags.locked = TRUE],
             res |-> "Ok",
             task |-> NewUnmapMemTask(info.start,
                                      (info.end + 1 - info.start) \div PAGE_SIZE)]
       : info \in {get_leaf_containing(W, segment_address)}})

\* ------------------------------------------------------------ VMAAllocator
\* VMAAllocator::start_unmap: [W, res, task]
start_unmap(W, segment_address) ==
    LET none == NewUnmapMemTask(0, 0)
    IN Only({
       IF info.hang THEN [W |-> Halt(W, "hang"), res |-> "Hang", task |-> none]
       ELSE IF is_empty_leaf(W, info.leaf)
       THEN [W |-> W, res |-> "SegmentAlreadyUnmapped", task |-> none]
       ELSE IF Node(W, info.leaf).flags.locked
       THEN [W |-> W, res |-> "SegmentLocked", task |-> none]
       ELSE [W |-> [W EXCEPT !.node[info.leaf].flags.locked = TRUE],
             res |-> "Ok",
             task |-> NewUnmapMemTask(info.start,
                                      (info.end + 1 - info.start) \div PAGE_SIZE)]
       : info \in {get_leaf_containing(W, segment_address)}})

\* start_try_map_at as it would be without the set_locked(true) on the new leaf.
start_try_map_at_NoLock(W, new_segment) ==
    LET new_segment_end == new_segment.start + new_segment.len - 1
        none == NewMapMemTask(0, 0, NoFlags)
    IN Only({
       IF info.hang THEN [W |-> Halt(W, "hang"), res |-> "Hang", task |-> none]
       ELSE IF info.end < new_segment_end
       THEN [W |-> W, res |-> "SegmentAlreadyExists", task |-> none]
       ELSE IF is_empty_leaf(W, info.leaf)
       THEN Only({
            IF r.W.fault # "none" THEN [W |-> r.W, res |-> "Panic", task |-> none]
            ELSE IF ~r.ok THEN [W |-> r.W, res |-> "OutOfMemory", task |-> none]
            ELSE [W |-> r.W,
                  res |-> "Ok",
                  task |-> NewMapMemTask(new_segment.start,
                                         new_segment.len \div PAGE_SIZE,
                                         new_segment.flags)]
            : r \in {insert(W, new_segment.start, new_segment.len,
                            NodeFlagsFrom(new_segment.flags))}})
       ELSE [W |-> W, res |-> "SegmentAlreadyExists", task |-> none]
       : info \in {get_leaf_containing(W, new_segment.start)}})

\* VMAAllocator::start_try_map_at: [W, res, task]
start_try_map_at(W, new_segment) ==
    LET new_segment_end == new_segment.start + new_segment.len - 1
        none == NewMapMemTask(0, 0, NoFlags)
    IN Only({
       IF info.hang THEN [W |-> Halt(W, "hang"), res |-> "Hang", task |-> none]
       ELSE IF info.end < new_segment_end
       THEN [W |-> W, res |-> "SegmentAlreadyExists", task |-> none]
       ELSE IF is_empty_leaf(W, info.leaf)
       THEN Only({
            IF r.W.fault # "none" THEN [W |-> r.W, res |-> "Panic", task |-> none]
            ELSE IF ~r.ok THEN [W |-> r.W, res |-> "OutOfMemory", task |-> none]
            ELSE IF ~is_used_leaf(r.W, r.leaf)
            THEN [W |-> Halt(r.W, "ub"), res |-> "Panic", task |-> none]
            ELSE [W |-> [r.W EXCEPT !.node[r.leaf].flags.locked = TRUE],
                  res |-> "Ok",
                  task |-> NewMapMemTask(new_segment.start,
                                         new_segment.len \div PAGE_SIZE,
                                         new_segment.flags)]
            : r \in {insert(W, new_segment.start, new_segment.len,
                            NodeFlagsFrom(new_segment.flags))}})
       ELSE [W |-> W, res |-> "SegmentAlreadyExists", task |-> none]
       : info \in {get_leaf_containing(W, new_segment.start)}})

\* The Ready(Ok) arm of MapTask::run: unlock the leaf, then tree.delete.
MapTaskFinish(W, start_address) ==
    Only({
    IF W.fault # "none" THEN W
    ELSE IF info.hang THEN Halt(W, "hang")
    ELSE IF ~is_used_leaf(W, info.leaf) THEN Halt(W, "ub")
    ELSE delete([W EXCEPT !.node[info.leaf].flags.locked = FALSE], start_address)
    : info \in {get_leaf_containing(W, start_address)}})

\* MapTask::run: [W, t, poll]
MapTask_run(W, t, suspend_after) ==
    Only({
    IF r.poll = "Ok"
    THEN Only({[W |-> W1, t |-> r.t,
                poll |-> IF W1.fault = "none" THEN "Ok" ELSE "Panic"]
               : W1 \in {MapTaskFinish(r.W, r.t.start_address)}})
    ELSE r
    : r \in {MapMemTaskRun(W, t, suspend_after)}})

\* UnmapTask::run as it would be without the tree.delete on Ready.
UnmapTask_run_NoDelete(W, t, suspend_after) ==
    UnmapMemTaskRun(W, t, suspend_after)

\* UnmapTask::run: [W, t, poll]
UnmapTask_run(W, t, suspend_after) ==
    Only({
    IF r.poll = "Ready"
    THEN Only({[W |-> W1, t |-> r.t,
                poll |-> IF W1.fault = "none" THEN "Ready" ELSE "Panic"]
               : W1 \in {delete(r.W, r.t.start_address)}})
    ELSE r
    : r \in {UnmapMemTaskRun(W, t, suspend_after)}})

\* ------------------------------------------------------------ construction
\* The memory bitmap handed to PageAllocatorInternal::new: the first
\* boot_reserved frames hold the kernel, bits past TotalPages are set.
BootByte(b, boot_reserved) ==
    LET Bit(i) == IF b * 8 + i < boot_reserved \/ b * 8 + i >= TotalPages
                  THEN Pow2(7 - i) ELSE 0
    IN Bit(0) + Bit(1) + Bit(2) + Bit(3) + Bit(4) + Bit(5) + Bit(6) + Bit(7)

RECURSIVE FoldCountZeros(_, _)
FoldCountZeros(bitmap, b) ==
    IF b = BitmapLen THEN 0 ELSE CountZeros(bitmap[b]) + FoldCountZeros(bitmap, b + 1)

\* PageAllocatorInternal::new over the boot bitmap; frame 0 is the kernel's
\* PML4, whose upper half points to the kernel's tables in frame 1.
BootWorld(boot_reserved, ub) ==
    LET bitmap == [b \in 0 .. (BitmapLen - 1) |-> BootByte(b, boot_reserved)]
    IN [bitmap |-> bitmap,
        free_pages |-> FoldCountZeros(bitmap, 0),
        mem |-> [f \in Frames |->
                   IF f = 0
                   THEN [i \in 0 .. (EntriesPerTable - 1) |->
                           IF i >= EntriesPerTable \div 2
                           THEN [READ_WRITE_EXECUTE EXCEPT !.addr = PAGE_SIZE]
                           ELSE ZERO]
                   ELSE ZeroTable],
        pml4 |-> NONE,
        node |-> [q \in {TEMP} |-> Placeholder],
        root |-> NONE,
        pages |-> [f \in {} |-> NewStoragePage(NONE)],
        head |-> NONE,
        pages_used |-> 0,
        fault |-> "none",
        ub |-> ub]

\* A UserPageMapper as its methods take it and as UserPageMapper::new is
\* described to build it: a PML4 frame of its own, the lower half clear, the
\* upper half the kernel's.
UserPageMapper_described(W) ==
    Only({IF ~r.ok THEN Halt(W, "panic")
          ELSE [r.W EXCEPT !.pml4 = r.addr,
                           !.mem[FrameOf(r.addr)] =
                               [i \in 0 .. (EntriesPerTable - 1) |->
                                  IF i >= EntriesPerTable \div 2
                                  THEN W.mem[0][i] ELSE ZERO]]
          : r \in {find_and_reserve_page(W)}})

\* UserPageMapper::new.  copy_from_slice panics unless source and destination
\* have one length: the destination is the upper half of the new PML4, the
\* source the whole kernel PML4.
UserPageMapper_new(W) ==
    Only({IF ~r.ok THEN [W |-> W, res |-> "Err"]
          ELSE LET dst_len == EntriesPerTable - EntriesPerTable \div 2
                   src_len == EntriesPerTable
                   cleared == [r.W EXCEPT !.mem[FrameOf(r.addr)] =
                                 [i \in 0 .. (EntriesPerTable - 1) |->
                                    IF i < EntriesPerTable \div 2 THEN ZERO ELSE @[i]]]
               IN IF dst_len # src_len
                  THEN [W |-> Halt(cleared, "panic"), res |-> "Panic"]
                  ELSE [W |-> [cleared EXCEPT
                                 !.pml4 = r.addr,
                                 !.mem[FrameOf(r.addr)] =
                                     [i \in 0 .. (EntriesPerTable - 1) |->
                                        IF i >= EntriesPerTable \div 2
                                        THEN W.mem[0][i - EntriesPerTable \div 2]
                                        ELSE @[i]]],
                        res |-> "Ok"]
          : r \in {find_and_reserve_page(W)}})

\* NodeStorageList::new
NodeStorageList_new(W) ==
    Only({IF ~r.ok THEN Halt(W, "panic")
          ELSE [r.W EXCEPT !.head = FrameOf(r.addr),
                           !.pages = [f \in {FrameOf(r.addr)} |-> NewStoragePage(NONE)],
                           !.node = [q \in {TEMP} \cup PageSlots(FrameOf(r.addr)) |->
                                       Placeholder]]
          : r \in {find_and_reserve_page(W)}})

\* VMATree::new (through VMAAllocator::new)
VMATree_new(W) ==
    Only({IF ~r.ok THEN Halt(r.W, "panic") ELSE [r.W EXCEPT !.root = r.ptr]
          : r \in {NewNode(NodeStorageList_new(W), LeafEmpty(HIGHEST_USER_ADDRESS))}})

\* ------------------------------------------------------------------ state
VARIABLES world, tasks, last, ops

vars == <<world, tasks, last, ops>>

FlagChoices == {[read |-> TRUE, write |-> TRUE, execute |-> FALSE],
                [read |-> TRUE, write |-> FALSE, execute |-> TRUE]}

\* The page-aligned segments a caller asks for.
Segments ==
    {seg \in [start : {p * PAGE_SIZE : p \in 0 .. MaxStartPage},
              len : {n * PAGE_SIZE : n \in 1 .. MaxSegPages},
              flags : FlagChoices] :
        seg.start + seg.len - 1 <= HIGHEST_USER_ADDRESS}

UserPageAddresses == {p * PAGE_SIZE : p \in 0 .. (UserPages - 1)}

\* The last call made on the allocator: what it returned, the task it made or
\* ran, and whether its address range touched the range of an unfinished task.
Call(op, res, task, locked) ==
    [op |-> op, res |-> res, task |-> task, locked |-> locked]

\* A task handed out by start_*: the mem task it owns, with the range and
\* flags it was created for and the last result of its run.
NewTask(kind, mem, start, end, flags) ==
    [kind |-> kind, mem |-> mem, status |-> "running", start |-> start,
     end |-> end, flags |-> flags, res |-> "Pending"]

Running == {i \in 1 .. Len(tasks) : tasks[i].status = "running"}

TouchesLocked(start, end) ==
    \E i \in Running : start <= tasks[i].end /\ tasks[i].start <= end

\* The kernel after boot: UserPageMapper::new, then VMAAllocator::new.
FreshWorld == VMATree_new(UserPageMapper_described(BootWorld(BootReserved, "silent")))

Init ==
    /\ world = FreshWorld
    /\ tasks = <<>>
    /\ last = Call("new", "Ok", 0, FALSE)
    /\ ops = 0

\* A call of VMAAllocator::start_try_map_at
StartTryMapAt(seg) ==
    \E r \in {start_try_map_at(world, seg)} :
       /\ world.fault = "none"
       /\ r.res = "Ok" => Len(tasks) < MaxTasks
       /\ world' = r.W
       /\ tasks' = IF r.res = "Ok"
                   THEN Append(tasks, NewTask("map", r.task, seg.start,
                                              seg.start + seg.len - 1, seg.flags))
                   ELSE tasks
       /\ last' = Call("start_try_map_at", r.res,
                       IF r.res = "Ok" THEN Len(tasks) + 1 ELSE 0,
                       TouchesLocked(seg.start, seg.start + seg.len - 1))
       /\ ops' = ops

\* A call of VMAAllocator::start_unmap
StartUnmap(addr) ==
    \E r \in {start_unmap(world, addr)}, info \in {get_leaf_containing(world, addr)} :
       /\ world.fault = "none"
       /\ r.res = "Ok" => (Len(tasks) < MaxTasks /\ ops < MaxOps)
       /\ world' = r.W
       /\ tasks' = IF r.res = "Ok"
                   THEN Append(tasks, NewTask("unmap", r.task, info.start, info.end,
                                              NoFlags))
                   ELSE tasks
       /\ last' = Call("start_unmap", r.res,
                       IF r.res = "Ok" THEN Len(tasks) + 1 ELSE 0,
                       TouchesLocked(addr, addr))
       /\ ops' = IF r.res = "Ok" THEN ops + 1 ELSE ops

Finished(poll) == poll \in {"Ok", "OutOfMemory", "Ready"}

\* The world as the run of a task leaves it, for the outcome ub of any
\* undefined behaviour met on the way.
RunTask(i, suspend_after, ub) ==
    \E r \in {IF tasks[i].kind = "map"
              THEN MapTask_run([world EXCEPT !.ub = ub], tasks[i].mem, suspend_after)
              ELSE UnmapTask_run([world EXCEPT !.ub = ub], tasks[i].mem,
                                 suspend_after)} :
       /\ world' = [r.W EXCEPT !.ub = "silent"]
       /\ tasks' = [tasks EXCEPT ![i].mem = r.t,
                                 ![i].status = IF Finished(r.poll) THEN "done" ELSE @,
                                 ![i].res = r.poll]
       /\ last' = Call(IF tasks[i].kind = "map" THEN "MapTask::run"
                                                ELSE "UnmapTask::run",
                       r.poll, i, FALSE)
       /\ ops' = ops

\* A call of MapTask::run on task i
MapTaskRun(i, suspend_after, ub) ==
    /\ world.fault = "none"
    /\ i \in Running
    /\ tasks[i].kind = "map"
    /\ RunTask(i, suspend_after, ub)

\* A call of UnmapTask::run on task i
UnmapTaskRun(i, suspend_after, ub) ==
    /\ world.fault = "none"
    /\ i \in Running
    /\ tasks[i].kind = "unmap"
    /\ RunTask(i, suspend_after, ub)

UsedLeaves(W) == {q \in DOMAIN W.node : W.node[q].tag = "Used"}

\* A call of VMATree::insert on a range inside one Empty leaf (its asserts).
Insert(seg) ==
    \E info \in {get_leaf_containing(world, seg.start)} :
       /\ world.fault = "none"
       /\ ops < MaxOps
       /\ is_empty_leaf(world, info.leaf)
       /\ seg.start + seg.len - 1 <= info.end
       /\ \E r \in {insert(world, seg.start, seg.len, NodeFlagsFrom(seg.flags))} :
             /\ world' = r.W
             /\ tasks' = tasks
             /\ last' = Call("insert",
                             IF r.ok THEN "Ok"
                             ELSE IF r.W.fault # "none" THEN "Panic"
                             ELSE "OutOfMemory", 0, FALSE)
             /\ ops' = ops + 1

UbOutcomes == {"silent", "crash"}

\* A call of VMATree::delete on an address of a Used leaf (its assert), for
\* the outcome ub of any undefined behaviour met on the way.
Delete(addr, ub) ==
    \E info \in {get_leaf_containing(world, addr)} :
       /\ world.fault = "none"
       /\ ops < MaxOps
       /\ is_used_leaf(world, info.leaf)
       /\ ~Node(world, info.leaf).flags.locked
       /\ world' = [delete([world EXCEPT !.ub = ub], addr) EXCEPT !.ub = "silent"]
       /\ tasks' = tasks
       /\ last' = Call("delete", "Ok", 0, FALSE)
       /\ ops' = ops + 1

\* The segments inserted into the tree directly: every page-aligned range of
\* the lower half of at most MaxSegPages pages.
TreeSegments ==
    {seg \in [start : UserPageAddresses,
              len : {n * PAGE_SIZE : n \in 1 .. MaxSegPages},
              flags : {[read |-> TRUE, write |-> TRUE, execute |-> FALSE]}] :
        seg.start + seg.len - 1 <= HIGHEST_USER_ADDRESS}

Next ==
    \/ \E seg \in Segments : StartTryMapAt(seg)
    \/ \E addr \in UserPageAddresses : StartUnmap(addr)
    \/ \E i \in 1 .. MaxTasks, n \in 0 .. MaxSuspendAfter, ub \in UbOutcomes :
          MapTaskRun(i, n, ub)

Spec == Init /\ [][Next]_vars

NextTree ==
    \/ \E seg \in {s \in Segments : s.flags.write} :
          Cardinality(UsedLeaves(world)) < MaxTasks /\ Insert(seg)
    \/ \E addr \in UserPageAddresses : StartUnmap(addr)
    \/ \E i \in 1 .. MaxTasks, n \in 0 .. MaxSuspendAfter, ub \in UbOutcomes :
          UnmapTaskRun(i, n, ub)

SpecTree == Init /\ [][NextTree]_vars

\* Whether the tree holds fewer than n segments.
FewerSegments(n) == Cardinality(UsedLeaves(world)) < n

NextVMA ==
    \/ \E seg \in TreeSegments : FewerSegments(MaxUsedLeaves) /\ Insert(seg)
    \/ \E addr \in UserPageAddresses, ub \in UbOutcomes : Delete(addr, ub)

SpecVMA == Init /\ [][NextVMA]_vars

NextLock ==
    \/ \E seg \in {s \in TreeSegments : s.len = PAGE_SIZE} :
          FewerSegments(MaxUsedLeaves) /\ Insert(seg)
    \/ \E addr \in UserPageAddresses : StartUnmap(addr)
    \/ \E addr \in UserPageAddresses, ub \in UbOutcomes : Delete(addr, ub)

SpecLock == Init /\ [][NextLock]_vars

NextInsert == \E seg \in TreeSegments : Insert(seg)

SpecInsert == Init /\ [][NextInsert]_vars

\* The same tree in a kernel whose boot memory map leaves two frames, the
\* ones UserPageMapper::new and NodeStorageList::new take: a second storage
\* page cannot be had.
FullWorld == VMATree_new(UserPageMapper_described(BootWorld(TotalPages - 2, "silent")))

InitNoMem ==
    /\ world = FullWorld
    /\ tasks = <<>>
    /\ last = Call("new", "Ok", 0, FALSE)
    /\ ops = 0

\* Segments of half a page, in the first MaxStartPage + 1 pages: the tree
\* itself takes any range, and with them it grows to more nodes than one
\* storage page holds.
HalfPageSegments ==
    {[start |-> k * (PAGE_SIZE \div 2), len |-> PAGE_SIZE \div 2,
      flags |-> [read |-> TRUE, write |-> TRUE, execute |-> FALSE]] :
        k \in 0 .. (2 * MaxStartPage + 1)}

NextNoMem == \E seg \in HalfPageSegments : Insert(seg)

SpecNoMem == InitNoMem /\ [][NextNoMem]_vars

\* ---------------------------------------------------- mapper-level runs
\* A call made on the mapper or the page allocator directly: its address and
\* check depth, and the count it returned or left in pages_used.
DirectCall(op, res, addr, depth, n) ==
    [op |-> op, res |-> res, task |-> 0, locked |-> FALSE,
     addr |-> addr, depth |-> depth, n |-> n]

\* The pages direct calls are made at: they share a PT (0, 1), a PD (0, 2) or
\* a PDPT only (0, 4).
DirectPages == {p * PAGE_SIZE : p \in 0 .. MaxStartPage}

\* A call of UserPageMapper::map_blank_page with pages_used = 0
MapBlankPage(v, flags) ==
    \E r \in {map_blank_page(world, v, FlagsEntry(flags), 0)} :
       /\ world.fault = "none"
       /\ ops < MaxOps
       /\ world' = r.W
       /\ tasks' = tasks
       /\ last' = DirectCall("map_blank_page", r.res, v, 0, r.pages_used)
       /\ ops' = ops + 1

\* A call of UserPageMapper::unmap_page
UnmapPage(v, free_table_check_depth) ==
    \E r \in {unmap_page(world, v, free_table_check_depth)} :
       /\ world.fault = "none"
       /\ ops < MaxOps
       /\ world' = r.W
       /\ tasks' = tasks
       /\ last' = DirectCall("unmap_page", "Ok", v, free_table_check_depth, r.pages_freed)
       /\ ops' = ops + 1

\* A call of find_and_reserve_page by the rest of the kernel
ReservePage ==
    \E r \in {find_and_reserve_page(world)} :
       /\ world.fault = "none"
       /\ ops < MaxOps
       /\ world' = r.W
       /\ tasks' = tasks
       /\ last' = DirectCall("find_and_reserve_page", IF r.ok THEN "Ok" ELSE "Err",
                             r.addr, 0, 0)
       /\ ops' = ops + 1

NextUPM ==
    \/ \E v \in DirectPages, flags \in FlagChoices : MapBlankPage(v, flags)
    \/ \E v \in DirectPages, d \in 0 .. 3 : UnmapPage(v, d)
    \/ ReservePage

SpecUPM == Init /\ [][NextUPM]_vars

\* ------------------------------------------------------- mapper drop
\* The mapper is dropped
DropMapper ==
    /\ world.fault = "none"
    /\ world.pml4 # NONE
    /\ world' = drop(world)
    /\ tasks' = tasks
    /\ last' = DirectCall("drop", "Ok", world.pml4, 0, 0)
    /\ ops' = ops + 1

\* Pages are mapped and unmapped through a mapper until it is dropped.
NextDrop ==
    \/ /\ world.pml4 # NONE
       /\ \E v \in DirectPages, flags \in FlagChoices : MapBlankPage(v, flags)
    \/ /\ world.pml4 # NONE
       /\ \E v \in DirectPages, d \in 0 .. 3 : UnmapPage(v, d)
    \/ DropMapper

SpecDrop == Init /\ [][NextDrop]_vars

\* -------------------------------------------------- page allocator runs
\* The first frame free after boot and construction: the boot frames, the
\* mapper's PML4 and the tree's first storage page lie below it.
FirstFreeFrame == BootReserved + 2

\* The addresses free_page is called with: the first two frames handed out
\* after construction, and two past the last frame.
FreeAddresses ==
    {f * PAGE_SIZE : f \in (FirstFreeFrame .. FirstFreeFrame + 1)
                          \cup (TotalPages .. TotalPages + 1)}

\* A frame some reserved page table still points to. free_page leaves it to
\* its caller to hold no reference to the frame it frees.
Referenced(W, frame) ==
    \E g \in Frames, i \in 0 .. (EntriesPerTable - 1) :
       /\ IsReserved(W.bitmap, g)
       /\ W.mem[g][i].present
       /\ FrameOf(W.mem[g][i].addr) = frame

\* The kernel addresses map_page is called with: pages of the upper half,
\* two under one page table and one under the next.
KernelPages == {(UserPages + p) * PAGE_SIZE : p \in 0 .. 2}

\* A call of free_page
FreePage(addr) ==
    /\ world.fault = "none"
    /\ ops < MaxOps
    /\ ~Referenced(world, FrameOf(addr))
    /\ world' = free_page(world, addr)
    /\ tasks' = tasks
    /\ last' = DirectCall("free_page", "Ok", addr, 0, 0)
    /\ ops' = ops + 1

\* A call of UserPageMapper::new
NewMapper ==
    \E r \in {UserPageMapper_new(world)} :
       /\ world.fault = "none"
       /\ ops < MaxOps
       /\ world' = r.W
       /\ tasks' = tasks
       /\ last' = DirectCall("UserPageMapper::new", r.res, 0, 0, 0)
       /\ ops' = ops + 1

\* A call of map_page for a kernel page
MapPage(v) ==
    \E r \in {map_page(world, v, READ_WRITE)} :
       /\ world.fault = "none"
       /\ ops < MaxOps
       /\ world' = r.W
       /\ tasks' = tasks
       /\ last' = DirectCall("map_page", r.res, v, 0, 0)
       /\ ops' = ops + 1

NextPPA ==
    \/ ReservePage
    \/ \E addr \in FreeAddresses : FreePage(addr)
    \/ NewMapper
    \/ \E v \in KernelPages : MapPage(v)

SpecPPA == Init /\ [][NextPPA]_vars

\* ------------------------------------------------------- mem task runs
\* The mem tasks on the mapper alone.  The allocator hands out a task for a
\* range no unfinished task works on, and a map task for pages not mapped.
MemTaskLimit == MaxTasks + 1

\* MapMemTask::new for a segment
NewMapMem(seg) ==
    /\ world.fault = "none"
    /\ Len(tasks) < MemTaskLimit
    /\ ~TouchesLocked(seg.start, seg.start + seg.len - 1)
    /\ \A v \in UserPageAddresses :
          (seg.start <= v /\ v < seg.start + seg.len) => ~LeafPresent(world, v)
    /\ world' = world
    /\ tasks' = Append(tasks,
                       NewTask("map",
                               NewMapMemTask(seg.start, seg.len \div PAGE_SIZE, seg.flags),
                               seg.start, seg.start + seg.len - 1, seg.flags))
    /\ last' = Call("MapMemTask::new", "Ok", Len(tasks) + 1, FALSE)
    /\ ops' = ops

\* UnmapMemTask::new for a segment
NewUnmapMem(seg) ==
    /\ world.fault = "none"
    /\ Len(tasks) < MemTaskLimit
    /\ ~TouchesLocked(seg.start, seg.start + seg.len - 1)
    /\ world' = world
    /\ tasks' = Append(tasks,
                       NewTask("unmap",
                               NewUnmapMemTask(seg.start, seg.len \div PAGE_SIZE),
                               seg.start, seg.start + seg.len - 1, NoFlags))
    /\ last' = Call("UnmapMemTask::new", "Ok", Len(tasks) + 1, FALSE)
    /\ ops' = ops

\* A call of MapMemTask::run or UnmapMemTask::run on task i
RunMem(i, suspend_after) ==
    /\ world.fault = "none"
    /\ i \in Running
    /\ \E r \in {IF tasks[i].kind = "map"
                  THEN MapMemTaskRun(world, tasks[i].mem, suspend_after)
                  ELSE UnmapMemTaskRun(world, tasks[i].mem, suspend_after)} :
          /\ world' = r.W
          /\ tasks' = [tasks EXCEPT ![i].mem = r.t,
                                    ![i].status = IF r.poll = "Pending" THEN @ ELSE "done",
                                    ![i].res = r.poll]
          /\ last' = Call(IF tasks[i].kind = "map" THEN "MapMemTask::run"
                                                   ELSE "UnmapMemTask::run",
                          r.poll, i, FALSE)
    /\ ops' = ops

NextMem ==
    \/ \E seg \in {s \in Segments : s.flags.write} : NewMapMem(seg)
    \/ \E seg \in {s \in Segments : s.flags.write} : NewUnmapMem(seg)
    \/ \E i \in 1 .. MemTaskLimit, n \in 1 .. MaxSuspendAfter : RunMem(i, n)

SpecMem == Init /\ [][NextMem]_vars

\* ------------------------------------------------------ pending processes
\* In the runs of the process list the variable world holds the list: head
\* and tail of PENDING_PROCESSES, the next field of every process, the
\* processes the caller owns (a PageBox not in the list), and the processes
\* handed to push_back and not yet returned, in the order of the calls.
Procs == 1 .. MaxProcs

\* static PENDING_PROCESSES
EmptyProcessList ==
    [head |-> NONE, tail |-> NONE, next |-> [p \in Procs |-> NONE],
     owned |-> Procs, pending |-> <<>>, fault |-> "none"]

\* process_list::push_back: the process is linked after the tail, if there
\* is one, and becomes the tail.  A tail that the caller owns again is
\* written through a pointer the list no longer owns.
push_back(L, process) ==
    LET L1 == IF L.tail = NONE THEN L
              ELSE IF L.tail \in L.owned THEN [L EXCEPT !.fault = "ub"]
              ELSE [L EXCEPT !.next[L.tail] = process]
    IN [L1 EXCEPT !.tail = process]

\* process_list::pop_front: the head, if there is one, is returned and its
\* next becomes the head.
pop_front(L) ==
    IF L.head # NONE
    THEN [L |-> [L EXCEPT !.head = L.next[L.head]], res |-> L.head]
    ELSE [L |-> L, res |-> NONE]

\* A call of push_back with a process the caller owns, its next None as the
\* function asserts of its argument.
PushBack(p) ==
    /\ world.fault = "none"
    /\ p \in world.owned
    /\ world.next[p] = NONE
    /\ world' = [push_back(world, p) EXCEPT !.owned = @ \ {p},
                                            !.pending = Append(@, p)]
    /\ last' = Call("push_back", p, 0, FALSE)
    /\ UNCHANGED <<tasks, ops>>

\* A call of pop_front.
PopFront ==
    \E r \in {pop_front(world)} :
       /\ world.fault = "none"
       /\ world' = [r.L EXCEPT
                      !.owned = IF r.res = NONE THEN @ ELSE @ \cup {r.res},
                      !.pending = SelectSeq(@, LAMBDA q : q # r.res)]
       /\ last' = Call("pop_front", r.res, 0, FALSE)
       /\ UNCHANGED <<tasks, ops>>

InitProc ==
    /\ world = EmptyProcessList
    /\ tasks = <<>>
    /\ last = Call("new", "Ok", 0, FALSE)
    /\ ops = 0

NextProc ==
    \/ \E p \in Procs : PushBack(p)
    \/ PopFront

SpecProc == InitProc /\ [][NextProc]_vars

\* ------------------------------------------------------------------ claims
\* The addresses of [start, end] a lookup is made at: every page of the range
\* and its last byte.
RangeAddresses(start, end) ==
    {a \in UserPageAddresses : start <= a /\ a <= end} \cup {end}

\* Every address of [start, end] resolves to one Used leaf that covers exactly
\* [start, end] and has the given locked bit.
SegmentUsed(W, start, end, locked) ==
    \A a \in RangeAddresses(start, end) :
       \E info \in {get_leaf_containing(W, a)} :
          /\ ~info.hang
          /\ is_used_leaf(W, info.leaf)
          /\ info.leaf = get_leaf_containing(W, start).leaf
          /\ info.start = start
          /\ info.end = end
          /\ Node(W, info.leaf).flags.locked = locked

\* Every address of [start, end] resolves to an Empty leaf.
RangeEmpty(W, start, end) ==
    \A a \in RangeAddresses(start, end) :
       \E info \in {get_leaf_containing(W, a)} :
          ~info.hang /\ is_empty_leaf(W, info.leaf)

\* The segment task i was created for.
SegmentOf(i) ==
    [start |-> tasks[i].start, len |-> tasks[i].end + 1 - tasks[i].start,
     flags |-> tasks[i].flags]

\* C1: after MapTask::run returns Ready(Ok) the segment is still in the tree:
\* every address of its range resolves to a Used leaf with exactly that range,
\* and the leaf is unlocked.
C1_MapOkKeepsSegment ==
    (last.op = "MapTask::run" /\ last.res = "Ok") =>
        SegmentUsed(world, tasks[last.task].start, tasks[last.task].end, FALSE)

\* A MapTask has just returned Ready(Ok).
C1_MapOkReturned ==
    /\ last.op = "MapTask::run"
    /\ last.res = "Ok"
    /\ world.fault = "none"

\* C2: after MapTask::run returns Ready(Err(OutOfMemory)) the tentative leaf is
\* gone: the range resolves to Empty leaves, no leaf of the range is left
\* locked, and start_try_map_at over the same range is not rejected with
\* SegmentAlreadyExists.
C2_MapErrDeletesLeaf ==
    (last.op = "MapTask::run" /\ last.res = "OutOfMemory") =>
        /\ RangeEmpty(world, tasks[last.task].start, tasks[last.task].end)
        /\ \A a \in RangeAddresses(tasks[last.task].start, tasks[last.task].end) :
              ~Node(world, get_leaf_containing(world, a).leaf).flags.locked
        /\ start_try_map_at(world, SegmentOf(last.task)).res # "SegmentAlreadyExists"

\* A MapTask has just returned Ready(Err(OutOfMemory)).
C2_MapErrReturned ==
    /\ last.op = "MapTask::run"
    /\ last.res = "OutOfMemory"
    /\ world.fault = "none"

\* C3: a start_unmap for an address inside the segment of an unfinished task
\* returns SegmentLocked, creates no task and changes nothing: the leaf of
\* every unfinished task stays Used and locked.
C3_StartUnmapLocked ==
    [][(last'.op = "start_unmap" /\ last'.locked) =>
          /\ last'.res = "SegmentLocked"
          /\ tasks' = tasks
          /\ world' = world
          /\ \A i \in Running :
                SegmentUsed(world', tasks[i].start, tasks[i].end, TRUE)]_vars

\* start_unmap was called inside the segment of a task that had already
\* returned Pending, and answered SegmentLocked.
C3_LockedUnmapTried ==
    /\ last.op = "start_unmap"
    /\ last.locked
    /\ last.res = "SegmentLocked"
    /\ \E i \in Running : tasks[i].res = "Pending"

\* C4: a start_try_map_at for a range that touches the segment of
\* an unfinished task returns SegmentLocked.
C4_StartMapLockedStated ==
    [][(last'.op = "start_try_map_at" /\ last'.locked) =>
          last'.res = "SegmentLocked"]_vars

\* start_try_map_at was called on a range touching the segment of an
\* unfinished task.
C4_LockedMapTried ==
    /\ last.op = "start_try_map_at"
    /\ last.locked
    /\ \E i \in Running : tasks[i].res = "Pending"

\* C5: from the start_* call until its run returns Ready, the leaf of a task
\* stays in the tree as a Used leaf with locked = true and the same range.
C5_LockedLeafStays ==
    world.fault = "none" =>
        \A i \in Running : SegmentUsed(world, tasks[i].start, tasks[i].end, TRUE)

\* A segment has been deleted while the leaf of an unfinished task is in the
\* tree, Used and locked.
C5_OtherSegmentDeleted ==
    /\ world.fault = "none"
    /\ last.op = "delete"
    /\ \E i \in Running : SegmentUsed(world, tasks[i].start, tasks[i].end, TRUE)

\* The iterations a task of MaxSegPages pages needs at most: every page once
\* forwards and once in the rewind.
RunBudget == 2 * MaxSegPages + 2

\* C6: every task runs to completion: from any state it has been suspended
\* in, a run in which should_suspend answers false for as many iterations as
\* mapping and rewinding the whole range take returns Ready.
C6_TaskCompletes ==
    world.fault = "none" =>
        \A i \in Running :
           \E r \in {IF tasks[i].kind = "map"
                     THEN MapTask_run(world, tasks[i].mem, RunBudget)
                     ELSE UnmapTask_run(world, tasks[i].mem, RunBudget)} :
              r.poll # "Pending"

\* A MapMemTask rewinds after map_blank_page failed on its first page.
C6_FirstPageFailed ==
    \E i \in Running :
       /\ tasks[i].mem.state = "FailRewinding"
       /\ tasks[i].mem.current_address < tasks[i].mem.start_address

\* C7: after UnmapTask::run returns Ready the segment is deleted: its range
\* resolves to Empty leaves and a second start_unmap there returns
\* SegmentAlreadyUnmapped.
C7_UnmapDeletes ==
    (last.op = "UnmapTask::run" /\ last.res = "Ready") =>
        /\ RangeEmpty(world, tasks[last.task].start, tasks[last.task].end)
        /\ \A a \in RangeAddresses(tasks[last.task].start, tasks[last.task].end) :
              start_unmap(world, a).res = "SegmentAlreadyUnmapped"

\* An UnmapTask has just returned Ready.
C7_UnmapReturned ==
    /\ last.op = "UnmapTask::run"
    /\ last.res = "Ready"
    /\ world.fault = "none"

\* C8: MapMemTask never receives PageAlreadyExists: no page of a range the
\* tree holds as Empty has a present leaf entry, and the page a MapMemTask is
\* about to map is not present.
C8_NoPageAlreadyExists ==
    /\ \A a \in UserPageAddresses :
          is_empty_leaf(world, get_leaf_containing(world, a).leaf) =>
              ~LeafPresent(world, a)
    /\ \A i \in Running :
          (tasks[i].kind = "map" /\ tasks[i].mem.state = "Mapping") =>
              ~LeafPresent(world, tasks[i].mem.current_address)
    /\ ~(last.op = "MapTask::run" /\ last.res = "Panic" /\ world.fault = "panic")

\* The run of a MapTask has panicked.
C8_MapPanicked ==
    /\ last.op = "MapTask::run"
    /\ last.res = "Panic"
    /\ world.fault = "panic"

\* C9: start_try_map_at returns Ok exactly when the range lies inside one Empty
\* leaf, otherwise SegmentAlreadyExists; after Ok every address of the range
\* resolves to one Used leaf with the range, the flags asked for and
\* locked = true.
C9_StartMapResult ==
    world.fault = "none" =>
        \A seg \in Segments :
           \E r \in {start_try_map_at(world, seg)},
              info \in {get_leaf_containing(world, seg.start)} :
              IF is_empty_leaf(world, info.leaf) /\ seg.start + seg.len - 1 <= info.end
              THEN /\ r.res = "Ok"
                   /\ SegmentUsed(r.W, seg.start, seg.start + seg.len - 1, TRUE)
                   /\ Node(r.W, get_leaf_containing(r.W, seg.start).leaf).flags =
                         [NodeFlagsFrom(seg.flags) EXCEPT !.locked = TRUE]
              ELSE r.res = "SegmentAlreadyExists"

\* start_try_map_at has returned Ok for a range strictly inside an Empty leaf
\* while another segment was in the tree.
C9_MappedInside ==
    /\ last.op = "start_try_map_at"
    /\ last.res = "Ok"
    /\ Cardinality(UsedLeaves(world)) >= 2
    /\ SegmentUsed(world, tasks[last.task].start, tasks[last.task].end, TRUE)

\* C10: start_try_map_at returning SegmentAlreadyExists and start_unmap
\* returning SegmentAlreadyUnmapped or SegmentLocked change nothing: the tree,
\* the node arenas, the page tables and pages_used are as before the call.
C10_ErrorsNoSideEffects ==
    [][(/\ last'.op \in {"start_try_map_at", "start_unmap"}
        /\ last'.res \in {"SegmentAlreadyExists", "SegmentAlreadyUnmapped",
                          "SegmentLocked"}) =>
          (world' = world /\ tasks' = tasks)]_vars

\* Each of the three errors has been returned.
C10_ErrorReturned ==
    /\ last.op = "start_unmap"
    /\ last.res = "SegmentAlreadyUnmapped"
    /\ \E i \in 1 .. Len(tasks) : tasks[i].status = "done"
    /\ Cardinality(UsedLeaves(world)) >= 1

\* ------------------------------------------------------- tree-shape claims
\* The depth a walk of the tree is followed to: more than any tree of
\* MaxUsedLeaves segments has, so a deeper walk is a cycle.
WalkDepth == 2 * MaxUsedLeaves + 3

\* The nodes of the subtree of n, n included, down to depth fuel.
RECURSIVE SubtreeNodes(_, _, _)
SubtreeNodes(W, n, fuel) ==
    IF fuel = 0 \/ ~is_branch(W, n) THEN {n}
    ELSE {n} \cup SubtreeNodes(W, Node(W, n).left, fuel - 1)
             \cup SubtreeNodes(W, Node(W, n).right, fuel - 1)

TreeNodes(W) == SubtreeNodes(W, W.root, WalkDepth)

TreeBranches(W) == {n \in TreeNodes(W) : is_branch(W, n)}

TreeLeaves(W) == {n \in TreeNodes(W) : is_leaf(W, n)}

\* The addresses lookups are made at: the first and the last byte of every
\* page of the lower half (pivots are page aligned).
ProbeAddresses == UserPageAddresses \cup {a + PAGE_SIZE - 1 : a \in UserPageAddresses}

\* The numbers of black branches on the paths from n down to a leaf.
RECURSIVE BlackHeights(_, _, _)
BlackHeights(W, n, fuel) ==
    IF fuel = 0 \/ ~is_branch(W, n) THEN {0}
    ELSE {h + (IF Node(W, n).color = "Black" THEN 1 ELSE 0) :
            h \in BlackHeights(W, Node(W, n).left, fuel - 1)
                  \cup BlackHeights(W, Node(W, n).right, fuel - 1)}

\* The red-black properties of the tree of W.
RedBlack(W) ==
    /\ ColorOf(W, W.root) = "Black"
    /\ \A n \in TreeBranches(W) :
          Node(W, n).color = "Red" =>
              /\ ColorOf(W, Node(W, n).left) = "Black"
              /\ ColorOf(W, Node(W, n).right) = "Black"
    /\ Cardinality(BlackHeights(W, W.root, WalkDepth)) = 1

\* The leaves partition the lower half, as get_leaf_containing sees it.
Partition(W) ==
    /\ \A a \in ProbeAddresses :
          \E info \in {get_leaf_containing(W, a)} :
             /\ ~info.hang
             /\ is_leaf(W, info.leaf)
             /\ info.start <= a
             /\ a <= info.end
    /\ \A a, b \in ProbeAddresses :
          a < b =>
             \E ia \in {get_leaf_containing(W, a)}, ib \in {get_leaf_containing(W, b)} :
                \/ ia.leaf = ib.leaf /\ ia.start = ib.start /\ ia.end = ib.end
                \/ ib.start > ia.end
    /\ \A n \in TreeLeaves(W) :
          \E a \in ProbeAddresses : get_leaf_containing(W, a).leaf = n
    /\ \A n \in TreeBranches(W) :
          /\ \A a \in ProbeAddresses :
                get_leaf_containing(W, a).leaf
                    \in SubtreeNodes(W, Node(W, n).left, WalkDepth) =>
                        a < Node(W, n).pivot
          /\ \A a \in ProbeAddresses :
                get_leaf_containing(W, a).leaf
                    \in SubtreeNodes(W, Node(W, n).right, WalkDepth) =>
                        a >= Node(W, n).pivot

\* The largest Empty leaf of the subtree of n (0 when it has none).
MaxEmptyIn(W, n) ==
    LET sizes == {Node(W, q).size :
                    q \in {l \in SubtreeNodes(W, n, WalkDepth) : is_empty_leaf(W, l)}}
    IN IF sizes = {} THEN 0 ELSE CHOOSE m \in sizes : \A k \in sizes : k <= m

\* C11: after any sequence of insert and delete the leaves partition
\* [0, HIGHEST_USER_ADDRESS]: every address lies in the range of the leaf it
\* resolves to, two addresses resolve to the same leaf or to leaves in address
\* order, and every pivot separates its left from its right subtree.
C11_LeavesPartition ==
    world.fault = "none" => Partition(world)

\* C12: after every insert, in any sequence of inserts from a fresh tree, the
\* root is black, no red branch has a red child and every path from the root
\* to a leaf has the same number of black branches.
C12_RedBlackAfterInsert ==
    (world.fault = "none" /\ last.op = "insert") => RedBlack(world)

\* Inserts have recoloured and rotated: a red branch under a black root in a
\* tree of at least five segments.
C12_InsertRebalanced ==
    /\ world.fault = "none"
    /\ last.op = "insert"
    /\ Cardinality(UsedLeaves(world)) >= 5
    /\ \E n \in TreeBranches(world) : Node(world, n).color = "Red"
    /\ \E h \in BlackHeights(world, world.root, WalkDepth) : h >= 2

\* C13: after every delete that returns, in any sequence of inserts and
\* deletes, the root is black, no red branch has a red child and every path
\* from the root to a leaf has the same number of black branches; and no
\* delete ends in fix_delete meeting a leaf as the sibling of the node it
\* fixes.
C13_RedBlackAfterDelete ==
    last.op = "delete" =>
        /\ world.fault # "leaf_sibling"
        /\ world.fault = "none" => RedBlack(world)

\* A delete has removed branches and left a tree that still has some.
C13_DeleteRebalanced ==
    /\ world.fault = "none"
    /\ last.op = "delete"
    /\ Cardinality(UsedLeaves(world)) >= 1
    /\ Cardinality(TreeBranches(world)) >= 2
    /\ \E n \in TreeBranches(world) : Node(world, n).color = "Red"

\* C14: every branch's max_empty_area_size is the size of the largest Empty
\* leaf of its subtree.
C14_MaxEmptyArea ==
    world.fault = "none" =>
        \A n \in TreeBranches(world) :
           Node(world, n).max_empty_area_size = MaxEmptyIn(world, n)

\* No two leaves next to each other in address order are both Empty.
NoAdjacentEmpty(W) ==
    \A a \in UserPageAddresses :
       a + PAGE_SIZE <= HIGHEST_USER_ADDRESS =>
          \E ia \in {get_leaf_containing(W, a)},
             ib \in {get_leaf_containing(W, a + PAGE_SIZE)} :
             (ia.start # ib.start \/ ia.leaf # ib.leaf) =>
                 ~(is_empty_leaf(W, ia.leaf) /\ is_empty_leaf(W, ib.leaf))

\* Every Empty leaf has the size of its range.
EmptySizesExact(W) ==
    \A a \in UserPageAddresses :
       \E info \in {get_leaf_containing(W, a)} :
          is_empty_leaf(W, info.leaf) =>
              Node(W, info.leaf).size = info.end + 1 - info.start

\* C15: after every delete no two address-adjacent leaves are both Empty, and
\* a merged Empty leaf has the size of the union of the merged ranges.
C15_Coalesced ==
    (world.fault = "none" /\ last.op = "delete") =>
        (NoAdjacentEmpty(world) /\ EmptySizesExact(world))

\* C16: after all inserted segments have been deleted the tree is a single
\* Empty leaf of size HIGHEST_USER_ADDRESS, the head is the only arena page
\* and the page allocator has as many free pages as before the inserts.
C16_RoundTrip ==
    (world.fault = "none" /\ last.op = "delete" /\ UsedLeaves(world) = {}) =>
        /\ is_empty_leaf(world, world.root)
        /\ Node(world, world.root).size = HIGHEST_USER_ADDRESS
        /\ DOMAIN world.pages = {world.head}
        /\ world.free_pages = FreshWorld.free_pages

\* The last of several segments has been deleted.
C16_AllDeleted ==
    /\ world.fault = "none"
    /\ last.op = "delete"
    /\ UsedLeaves(world) = {}
    /\ ops >= 4

C18_RewindIntegrity ==
    (world.fault = "none" /\ last.op = "MapTask::run" /\ last.res = "OutOfMemory") =>
        /\ tasks[last.task].mem.pages_allocated = 0
        /\ \A v \in UserPageAddresses :
              (tasks[last.task].start <= v /\ v <= tasks[last.task].end) =>
                  ~LeafPresent(world, v)

\* A map task has failed after mapping a page of its range.
C18_FailedPartway ==
    /\ world.fault = "none"
    /\ last.op = "MapTask::run"
    /\ last.res = "OutOfMemory"
    /\ tasks[last.task].end - tasks[last.task].start > PAGE_SIZE

\* ------------------------------------------------------- mapper claims
\* Mapping v and unmapping it with check depth 3 gives back the bitmap, the
\* free count and the contents of every frame that was reserved before.
RoundTripRestores(W, v, flags) ==
    \E m \in {map_blank_page(W, v, FlagsEntry(flags), 0)} :
       m.res = "Ok" =>
          \E u \in {unmap_page(m.W, v, 3)} :
             /\ u.W.bitmap = W.bitmap
             /\ u.W.free_pages = W.free_pages
             /\ \A f \in Frames : IsReserved(W.bitmap, f) => u.W.mem[f] = W.mem[f]

\* C19: in every mapper state, for every page v that is not mapped,
\* map_blank_page(v, flags) followed by unmap_page(v, 3) returns the page
\* tables and the bitmap to their state before the map call.
C19_MapUnmapRoundTrip ==
    world.fault = "none" =>
        \A v \in DirectPages, flags \in FlagChoices :
           ~LeafPresent(world, v) => RoundTripRestores(world, v, flags)

\* A page is mapped while its neighbour in the same PT is not.
C19_NeighbourMapped ==
    /\ world.fault = "none"
    /\ last.op = "map_blank_page"
    /\ last.res = "Ok"
    /\ \E v \in DirectPages : ~LeafPresent(world, v) /\ LeafPresent(world, v + PAGE_SIZE)

\* C20: unmap_page(v, d) on a page that is not mapped changes nothing and
\* returns 0; on a mapped page it clears the leaf entry and frees the leaf
\* frame, frees a parent table only when no entry of that table is non-zero,
\* frees at most d parent tables and returns the number of frames freed.
C20_UnmapPageStated ==
    [][last'.op = "unmap_page" =>
          \E walk \in {UnmapWalk(world, 0, world.pml4, last'.addr, <<>>)} :
             IF walk = <<>>
             THEN world' = world /\ last'.n = 0
             ELSE /\ ~LeafPresent(world', last'.addr)
                  /\ ~IsReserved(world'.bitmap,
                                 FrameOf(Entry(world, walk[4][2], walk[4][1]).addr))
                  /\ last'.n <= last'.depth + 1
                  /\ last'.n = world'.free_pages - world.free_pages
                  /\ \A k \in 2 .. 4 :
                        (/\ IsReserved(world.bitmap, FrameOf(walk[k][2]))
                         /\ ~IsReserved(world'.bitmap, FrameOf(walk[k][2]))) =>
                            world'.mem[FrameOf(walk[k][2])] = ZeroTable]_vars

\* A mapped page has been unmapped with a check depth of at least 1.
C20_Unmapped ==
    /\ last.op = "unmap_page"
    /\ last.depth >= 1
    /\ last.n >= 1

\* C21: when map_blank_page returns OutOfMemory the frames it reserved are
\* free again, every frame that was reserved before the call has the contents
\* it had, and pages_used is what it was before the call.
C21_MapFailureUndone ==
    [][(last'.op = "map_blank_page" /\ last'.res = "OutOfMemory") =>
          /\ world'.bitmap = world.bitmap
          /\ world'.free_pages = world.free_pages
          /\ \A f \in Frames :
                IsReserved(world.bitmap, f) => world'.mem[f] = world.mem[f]
          /\ last'.n = 0]_vars

\* map_blank_page has failed with OutOfMemory.
C21_MapFailed ==
    /\ last.op = "map_blank_page"
    /\ last.res = "OutOfMemory"

\* -------------------------------------------------------- mem task claims
\* The pages of a segment.
SegPages(seg) == {v \in UserPageAddresses : seg.start <= v /\ v < seg.start + seg.len}

\* An uninterrupted UnmapMemTask over seg, all of whose pages are mapped,
\* returns Ready, leaves no page of seg mapped and its leaf frames free, keeps
\* every other mapping, leaves no table without a present entry linked, and
\* returns the number of frames freed.
UnmapsExactly(W, seg) ==
    \E r \in {UnmapMemTaskRun(W, NewUnmapMemTask(seg.start, seg.len \div PAGE_SIZE),
                              MaxSegPages + 1)} :
       /\ r.poll = "Ready"
       /\ \A v \in SegPages(seg) :
             /\ ~LeafPresent(r.W, v)
             /\ \E walk \in {UnmapWalk(W, 0, W.pml4, v, <<>>)} :
                   ~IsReserved(r.W.bitmap, FrameOf(Entry(W, walk[4][2], walk[4][1]).addr))
       /\ \A v \in UserPageAddresses \ SegPages(seg) :
             LeafPresent(W, v) => LeafPresent(r.W, v)
       /\ \A v \in SegPages(seg) :
             \E walk \in {UnmapWalk(W, 0, W.pml4, v, <<>>)} :
                \A k \in 2 .. 4 :
                   IsReserved(r.W.bitmap, FrameOf(walk[k][2])) =>
                       \E e \in 0 .. (EntriesPerTable - 1) :
                          r.W.mem[FrameOf(walk[k][2])][e].present
       /\ r.t.pages_freed = r.W.free_pages - W.free_pages

\* C22: an UnmapMemTask over pages that are all mapped leaves no page of its
\* range mapped, frees their leaf frames and every parent table that became
\* empty, and nothing else, and returns the number of frames freed.
C22_UnmapTaskFreesRange ==
    world.fault = "none" =>
        \A seg \in {s \in Segments : s.flags.write} :
           (\A v \in SegPages(seg) : LeafPresent(world, v)) => UnmapsExactly(world, seg)

\* An UnmapMemTask over mapped pages has returned the frames it freed.
C22_UnmapTaskDone ==
    /\ world.fault = "none"
    /\ last.op = "UnmapMemTask::run"
    /\ last.res = "Ready"
    /\ tasks[last.task].mem.pages_freed > MaxSegPages

\* The run of a mem task with should_suspend answering false n times.
MemRun(W, t, n) ==
    IF t.kind = "map" THEN MapMemTaskRun(W, t, n) ELSE UnmapMemTaskRun(W, t, n)

\* A run of t that is suspended after n steps and then resumed ends, when it
\* ends, with the result, the task fields and the world of a run that is not
\* suspended.
SuspensionTransparent(W, t, n) ==
    \E r1 \in {MemRun(W, t, n)} :
       r1.poll = "Pending" =>
          \E r2 \in {MemRun(r1.W, r1.t, RunBudget)}, r0 \in {MemRun(W, t, RunBudget)} :
             (r0.poll # "Pending" /\ r2.poll # "Pending") =>
                 /\ r2.poll = r0.poll
                 /\ r2.t = r0.t
                 /\ r2.W = r0.W

\* C23: for MapMemTask and UnmapMemTask, a run suspended at any point and
\* resumed returns, once it returns Ready, the result and leaves the page
\* tables and the page allocator as an uninterrupted run does.
C23_SuspensionTransparent ==
    world.fault = "none" =>
        \A i \in Running, n \in 1 .. MaxSuspendAfter :
           SuspensionTransparent(world, tasks[i].mem, n)

\* An unmap task that was suspended after its first page, with frames
\* already freed, and that ends when resumed.
C23_ResumedTask ==
    /\ world.fault = "none"
    /\ \E i \in Running :
          /\ tasks[i].kind = "unmap"
          /\ tasks[i].res = "Pending"
          /\ tasks[i].mem.pages_freed > 0
          /\ MemRun(world, tasks[i].mem, RunBudget).poll = "Ready"

\* ------------------------------------------------------ kernel half
\* The frames the present entries of a set of tables point to.
Targets(W, tables) ==
    {FrameOf(W.mem[f][i].addr) :
        <<f, i>> \in {p \in tables \X (0 .. (EntriesPerTable - 1)) :
                        W.mem[p[1]][p[2]].present}}

\* The frames reachable through the upper half of the user PML4 as built at
\* construction: the kernel's PDPTs, PDs and PTs.
KernelTables ==
    LET W == FreshWorld
        pdpts == {FrameOf(W.mem[FrameOf(W.pml4)][i].addr) :
                     i \in {j \in (EntriesPerTable \div 2) .. (EntriesPerTable - 1) :
                               W.mem[FrameOf(W.pml4)][j].present}}
        pds == Targets(W, pdpts)
        pts == Targets(W, pds)
    IN pdpts \cup pds \cup pts

LowerHalfFrames(W) ==
    LET pdpts == {FrameOf(W.mem[FrameOf(W.pml4)][i].addr) :
                     i \in {j \in 0 .. (EntriesPerTable \div 2 - 1) :
                               W.mem[FrameOf(W.pml4)][j].present}}
        pds == Targets(W, pdpts)
        pts == Targets(W, pds)
        leaves == Targets(W, pts)
    IN pdpts \cup pds \cup pts \cup leaves

\* The present entries of the lower half of the user PML4 and of the tables
\* below it.
LowerHalfEntries(W) ==
    LET pdpts == {FrameOf(W.mem[FrameOf(W.pml4)][i].addr) :
                     i \in {j \in 0 .. (EntriesPerTable \div 2 - 1) :
                               W.mem[FrameOf(W.pml4)][j].present}}
        pds == Targets(W, pdpts)
        pts == Targets(W, pds)
    IN {p \in {FrameOf(W.pml4)} \X (0 .. (EntriesPerTable \div 2 - 1)) :
           W.mem[p[1]][p[2]].present}
       \cup {p \in (pdpts \cup pds \cup pts) \X (0 .. (EntriesPerTable - 1)) :
                W.mem[p[1]][p[2]].present}

\* C26: dropping a mapper frees every frame reachable from the lower half of
\* its PML4 exactly once and then the PML4 frame, frees nothing of the
\* kernel's, and leaves the free count at its value before the mapper was
\* created.
C26_DropFreesLowerHalf ==
    [][last'.op = "drop" =>
         /\ ClearFrames(world'.bitmap) =
               ClearFrames(world.bitmap) \cup LowerHalfFrames(world)
                                         \cup {FrameOf(world.pml4)}
         /\ world'.free_pages =
               world.free_pages + Cardinality(LowerHalfFrames(world)) + 1
         /\ \A f \in KernelTables : IsReserved(world'.bitmap, f)
         /\ world'.free_pages = FreshWorld.free_pages + 1
         /\ world'.free_pages = Cardinality(ClearFrames(world'.bitmap))]_vars

\* A mapper with mapped pages was dropped.
C26_Dropped ==
    /\ last.op = "drop"
    /\ world.pml4 = NONE
    /\ world.free_pages > FreshWorld.free_pages + 1

\* Dropped while every frame its lower half reaches is reserved and reached
\* through one entry only, and no frame it took is unreachable, a mapper returns each of its frames once.
C26_DropOfSoundMapper ==
    [][/\ last'.op = "drop"
       /\ ClearFrames(world.bitmap) = ClearFrames(FreshWorld.bitmap) \ LowerHalfFrames(world)
       /\ world.free_pages = FreshWorld.free_pages - Cardinality(LowerHalfFrames(world))
       /\ Cardinality(LowerHalfEntries(world)) = Cardinality(LowerHalfFrames(world))
       => /\ ClearFrames(world'.bitmap) =
               ClearFrames(FreshWorld.bitmap) \cup {FrameOf(world.pml4)}
          /\ world'.free_pages = FreshWorld.free_pages + 1]_vars

\* ------------------------------------------------ page allocator claims
\* C24: UserPageMapper::new, when a frame can be reserved, returns a mapper
\* whose upper PML4 half equals the kernel PML4's upper half and whose lower
\* half is all zero; it fails only when no frame is available.
C24_NewClonesUpperHalf ==
    [][last'.op = "UserPageMapper::new" =>
         IF ClearFrames(world.bitmap) = {}
         THEN last'.res = "Err"
         ELSE /\ last'.res = "Ok"
              /\ world'.fault = "none"
              /\ \A i \in 0 .. (EntriesPerTable - 1) :
                    world'.mem[FrameOf(world'.pml4)][i] =
                        IF i < EntriesPerTable \div 2
                        THEN ZERO
                        ELSE world.mem[FrameOf(page_table_address)][i]]_vars

\* UserPageMapper::new was called while a frame was free.
C24_NewCalled ==
    /\ last.op = "UserPageMapper::new"
    /\ last.res # "Err"

\* C27: find_and_reserve_page returns the free frame of the lowest address,
\* sets its bit only, takes one off free_pages and hands the frame out
\* zeroed; it fails, changing nothing, exactly when every bit is set.
C27_FirstFit ==
    [][last'.op = "find_and_reserve_page" =>
         LET free == ClearFrames(world.bitmap)
         IN IF free = {}
            THEN last'.res = "Err" /\ world' = world
            ELSE LET f == CHOOSE g \in free : \A h \in free : g <= h
                 IN /\ last'.res = "Ok"
                    /\ last'.addr = f * PAGE_SIZE
                    /\ ClearFrames(world'.bitmap) = free \ {f}
                    /\ world'.free_pages = world.free_pages - 1
                    /\ world'.mem[f] = ZeroTable]_vars

\* A frame was handed out from a hole below a reserved frame while a frame
\* above it was free, and it had held a table entry before.
C27_HoleReused ==
    /\ last.op = "find_and_reserve_page"
    /\ last.res = "Ok"
    /\ \E g, h \in Frames :
          /\ FrameOf(last.addr) < g /\ g < h
          /\ IsReserved(world.bitmap, g)
          /\ ~IsReserved(world.bitmap, h)

\* find_and_reserve_page failed.
C27_NoFrameLeft ==
    /\ last.op = "find_and_reserve_page"
    /\ last.res = "Err"

\* C28: free_page of a frame below total_pages whose bit is already clear
\* changes neither the bitmap nor free_pages, and free_page of a frame index
\* at or above total_pages changes nothing.
C28_FreeUnreservedNoOp ==
    [][last'.op = "free_page"
         /\ (FrameOf(last'.addr) >= TotalPages
               \/ ~IsReserved(world.bitmap, FrameOf(last'.addr)))
       => /\ world'.bitmap = world.bitmap
          /\ world'.free_pages = world.free_pages]_vars

\* free_page was called on a frame below total_pages whose bit was clear.
C28_FreedUnreserved ==
    /\ last.op = "free_page"
    /\ FrameOf(last.addr) < TotalPages
    /\ world.free_pages > Cardinality(ClearFrames(world.bitmap))

\* free_page of a frame index at or above total_pages changes nothing.
C28_OutOfRangeIgnored ==
    [][last'.op = "free_page" /\ FrameOf(last'.addr) >= TotalPages
       => world' = world]_vars

\* C29: free_pages equals the number of clear bits of the bitmap, and
\* used_pages = total_pages - free_pages is not negative.
C29_Accounting ==
    world.fault = "none" =>
        /\ world.free_pages = Cardinality(ClearFrames(world.bitmap))
        /\ TotalPages - world.free_pages >= 0

\* A frame was reserved and freed again.
C29_ReservedThenFreed ==
    /\ last.op = "free_page"
    /\ FrameOf(last.addr) >= BootReserved
    /\ FrameOf(last.addr) < TotalPages
    /\ world.free_pages = Cardinality(ClearFrames(world.bitmap))
    /\ ops >= 2

\* Freeing a reserved frame restores its bit and the count, and the next
\* find_and_reserve_page can return it.
C29_RoundTrip ==
    [][last'.op = "free_page" /\ FrameOf(last'.addr) < TotalPages
         /\ IsReserved(world.bitmap, FrameOf(last'.addr))
       => /\ ClearFrames(world'.bitmap) =
               ClearFrames(world.bitmap) \cup {FrameOf(last'.addr)}
          /\ world'.free_pages = world.free_pages + 1]_vars

\* C30: when map_page fails, the frame it reserved for the leaf is free
\* again; when it fails with PageAlreadyExists, the bitmap, free_pages and
\* every table entry are as before the call.
C30_MapPageFailure ==
    [][last'.op = "map_page" /\ last'.res # "Ok" =>
         /\ \A f \in ClearFrames(world.bitmap) :
               (\A g \in ClearFrames(world.bitmap) : f <= g)
                   => f \in ClearFrames(world'.bitmap)
         /\ last'.res = "OutOfPages" \/ last'.res = "PageAlreadyExists"
         /\ last'.res = "PageAlreadyExists" =>
               /\ world'.bitmap = world.bitmap
               /\ world'.free_pages = world.free_pages
               /\ \A f \in Frames :
                     IsReserved(world.bitmap, f) => world'.mem[f] = world.mem[f]]_vars

\* map_page failed on a page that was already mapped.
C30_AlreadyExists ==
    /\ last.op = "map_page"
    /\ last.res = "PageAlreadyExists"

\* map_page ran out of frames while building the parent tables.
C30_OutOfPagesPartway ==
    /\ last.op = "map_page"
    /\ last.res = "OutOfPages"
    /\ ClearFrames(world.bitmap) # {}

\* ------------------------------------------------------ sentinel claims
\* Whether the slot of a node pointer is marked reserved in its storage page.
SlotReserved(W, ptr) ==
    /\ ptr # TEMP
    /\ ptr \in DOMAIN W.node
    /\ SlotFrame(ptr) \in DOMAIN W.pages
    /\ BitOf(W.pages[SlotFrame(ptr)].usage_bitmap[SlotIndex(ptr) \div 8],
             SlotIndex(ptr) % 8) = 1

\* The Used segments get_leaf_containing reports: range, flags and locked bit.
ReportedSegments(W) ==
    {<<info.start, info.end, Node(W, info.leaf).flags>> :
        info \in {i \in {get_leaf_containing(W, a) : a \in ProbeAddresses} :
                     ~i.hang /\ is_used_leaf(W, i.leaf)}}

\* C34: insert and delete of one segment leave every other Used segment as it
\* was: the segments reported after an insert are those reported before and
\* one more, those reported after a delete are those reported before but one.
C34_OthersUnchanged ==
    [][/\ (last'.op = "insert" /\ last'.res = "Ok" =>
             /\ ReportedSegments(world) \subseteq ReportedSegments(world')
             /\ Cardinality(ReportedSegments(world')) =
                   Cardinality(ReportedSegments(world)) + 1)
       /\ (last'.op = "delete" /\ world'.fault = "none" =>
             /\ ReportedSegments(world') \subseteq ReportedSegments(world)
             /\ Cardinality(ReportedSegments(world')) =
                   Cardinality(ReportedSegments(world)) - 1)]_vars

\* A segment was deleted from a tree that holds two more.
C34_DeletedAmongOthers ==
    /\ world.fault = "none"
    /\ last.op = "delete"
    /\ Cardinality(UsedLeaves(world)) >= 2

\* In a tree no delete has worked on, an insert leaves every other Used
\* segment as it was.
C34_InsertKeepsOthers ==
    [][last'.op = "insert" /\ last'.res = "Ok" =>
         /\ ReportedSegments(world) \subseteq ReportedSegments(world')
         /\ Cardinality(ReportedSegments(world')) =
               Cardinality(ReportedSegments(world)) + 1]_vars

\* C38: after delete returns, neither the root pointer nor a branch's left or
\* right pointer refers to temp_node, every node of the tree lives in a slot
\* marked reserved, and NodePtr::free was not applied to temp_node.
C38_NoSentinelEdge ==
    last.op = "delete" =>
        /\ world.fault = "none"
        /\ \A n \in TreeNodes(world) : SlotReserved(world, n)

\* A delete that collapsed a branch has returned, other segments staying.
C38_DeleteReturned ==
    /\ last.op = "delete"
    /\ world.fault = "none"
    /\ UsedLeaves(world) # {}

\* ------------------------------------------------- dangling entry claims
\* C37: no present entry reachable from the lower half of the user PML4
\* points to a frame whose bit is clear in the page allocator's bitmap.
C37_NoDanglingEntry ==
    \A f \in LowerHalfFrames(world) : IsReserved(world.bitmap, f)

\* map_blank_page has failed with OutOfMemory in a mapper that holds pages.
C37_FailedAmongMapped ==
    /\ last.op = "map_blank_page"
    /\ last.res = "OutOfMemory"
    /\ LowerHalfFrames(world) # {}

\* ---------------------------------------------------- entry flag claims
\* The entries on the walk to virtual_address, PML4 entry first; <<>> when the
\* page is not mapped.
WalkEntries(W, virtual_address) ==
    LET walk == UnmapWalk(W, 0, W.pml4, virtual_address, <<>>)
    IN [k \in 1 .. Len(walk) |-> Entry(W, walk[k][2], walk[k][1])]

\* C35: of the entries a successful map_blank_page installs (the last
\* pages_used entries of the walk to its page), every non-leaf entry is
\* present, writable, executable and user-accessible, and the leaf entry is
\* present and user-accessible with W and NX as the requested flags say.
C35_InstalledFlags ==
    [][last'.op = "map_blank_page" /\ last'.res = "Ok" =>
         \E entries \in {WalkEntries(world', last'.addr)} :
            /\ Len(entries) = 4
            /\ \A k \in 1 .. 3 :
                  k > 4 - last'.n =>
                     /\ entries[k].present
                     /\ entries[k].writable
                     /\ ~entries[k].no_execute
                     /\ entries[k].user_accessable
            /\ entries[4].present
            /\ entries[4].user_accessable
            /\ \A flags \in FlagChoices :
                  map_blank_page(world, last'.addr, FlagsEntry(flags), 0).W = world' =>
                     /\ entries[4].writable = flags.write
                     /\ entries[4].no_execute = ~flags.execute]_vars

\* map_blank_page has installed a leaf entry and parent entries.
C35_InstalledParents ==
    /\ last.op = "map_blank_page"
    /\ last.res = "Ok"
    /\ last.n >= 2

\* In a mapper without an entry to a free frame, the leaf entry a successful
\* map_blank_page installs is present and user-accessible with W and NX as
\* the requested flags say, and the parent entries are present, writable and
\* executable.
C35_LeafFlags ==
    [][C37_NoDanglingEntry /\ last'.op = "map_blank_page" /\ last'.res = "Ok" =>
         \E entries \in {WalkEntries(world', last'.addr)} :
            /\ Len(entries) = 4
            /\ \A k \in 1 .. 3 :
                  k > 4 - last'.n =>
                     /\ entries[k].present
                     /\ entries[k].writable
                     /\ ~entries[k].no_execute
            /\ entries[4].present
            /\ entries[4].user_accessable
            /\ \A flags \in FlagChoices :
                  map_blank_page(world, last'.addr, FlagsEntry(flags), 0).W = world' =>
                     /\ entries[4].writable = flags.write
                     /\ entries[4].no_execute = ~flags.execute]_vars

\* ------------------------------------------------------- rewind claims
\* The map tasks that are in FailRewinding and have not returned Ready: their
\* next iteration calls unmap_page(current_address).
Rewinding == {i \in Running : tasks[i].kind = "map" /\ tasks[i].mem.state = "FailRewinding"}

\* C32: in FailRewinding a MapMemTask calls unmap_page only on pages of its
\* own range, not below start_address, and pages_allocated never drops below
\* 0.
C32_RewindInRange ==
    /\ \A i \in Rewinding :
          /\ tasks[i].mem.current_address >= tasks[i].mem.start_address
          /\ tasks[i].mem.current_address <= tasks[i].end
    /\ \A i \in 1 .. Len(tasks) :
          tasks[i].kind = "map" => tasks[i].mem.pages_allocated >= 0

\* A MapMemTask is rewinding.
C32_Rewinding ==
    /\ world.fault = "none"
    /\ Rewinding # {}

\* A MapMemTask that fails after its first page rewinds from the last page
\* it mapped, inside its own range.
C32_RewindAfterFirstPage ==
    [][\A i \in Rewinding' :
          (i \in Running /\ tasks[i].mem.state = "Mapping"
             /\ tasks[i].mem.current_address > tasks[i].mem.start_address)
          => /\ tasks'[i].mem.current_address >= tasks[i].mem.start_address
             /\ tasks'[i].mem.current_address < tasks[i].mem.current_address]_vars

\* ----------------------------------------------------- map task claims
\* The frame the leaf entry of a mapped page points to.
LeafFrame(W, v) ==
    LET walk == UnmapWalk(W, 0, W.pml4, v, <<>>)
    IN FrameOf(Entry(W, walk[4][2], walk[4][1]).addr)

\* An uninterrupted MapMemTask over seg, none of whose pages is mapped, that
\* returns Ready(Ok(n)) leaves every page of seg with a present leaf entry to
\* a reserved, zeroed frame of its own, and n is the number of frames by
\* which free_pages went down.
MapsExactly(W, seg) ==
    \E r \in {MapMemTaskRun(W, NewMapMemTask(seg.start, seg.len \div PAGE_SIZE, seg.flags),
                            MaxSegPages + 1)} :
       r.poll = "Ok" =>
          /\ \A v \in SegPages(seg) :
                /\ LeafPresent(r.W, v)
                /\ IsReserved(r.W.bitmap, LeafFrame(r.W, v))
                /\ ~IsReserved(W.bitmap, LeafFrame(r.W, v))
                /\ r.W.mem[LeafFrame(r.W, v)] = ZeroTable
                /\ \A u \in UserPageAddresses \ {v} :
                      LeafPresent(r.W, u) => LeafFrame(r.W, u) # LeafFrame(r.W, v)
          /\ r.t.pages_allocated = W.free_pages - r.W.free_pages

\* C36: when MapMemTask::run returns Ready(Ok(n)), every page of its range
\* has a present leaf entry to its own distinct zeroed frame and n is the
\* number of frames the task reserved.
C36_MapTaskMapsRange ==
    world.fault = "none" =>
        \A seg \in {s \in Segments : s.flags.write} :
           (\A v \in SegPages(seg) : ~LeafPresent(world, v)) => MapsExactly(world, seg)

\* A MapMemTask over two pages has returned Ready(Ok(n)) with tables created.
C36_MapTaskDone ==
    /\ world.fault = "none"
    /\ last.op = "MapMemTask::run"
    /\ last.res = "Ok"
    /\ tasks[last.task].mem.pages_allocated > MaxSegPages

\* In a mapper without an entry to a free frame and without two entries to
\* one frame, a MapMemTask that returns Ready(Ok(n)) has mapped its range as
\* stated.
C36_MapsRangeWhenSound ==
    (/\ world.fault = "none"
     /\ C37_NoDanglingEntry
     /\ Cardinality(LowerHalfEntries(world)) = Cardinality(LowerHalfFrames(world))) =>
        \A seg \in {s \in Segments : s.flags.write} :
           (\A v \in SegPages(seg) : ~LeafPresent(world, v)) => MapsExactly(world, seg)

\* ---------------------------------------------------- isolation claims
\* The frames of the tables on the walk to a mapped page: PDPT, PD and PT.
WalkTables(W, v) ==
    LET walk == UnmapWalk(W, 0, W.pml4, v, <<>>)
    IN {FrameOf(walk[k][2]) : k \in 2 .. 4}

\* The step was a run of an UnmapMemTask, or of a MapMemTask that rewinds.
UnmapOrRewindStep ==
    \/ last'.op = "UnmapMemTask::run"
    \/ /\ last'.op = "MapMemTask::run"
       /\ \/ tasks'[last'.task].mem.state = "FailRewinding"
          \/ last'.res = "OutOfMemory"

\* C33: a run of an UnmapMemTask, or of the rewind of a failed MapMemTask, on
\* one segment leaves every mapped page outside that segment mapped, to the
\* same frame, with that frame and the tables on the way to it reserved.
C33_SegmentIsolation ==
    [][UnmapOrRewindStep =>
         \A v \in UserPageAddresses :
            (/\ LeafPresent(world, v)
             /\ (v < tasks[last'.task].start \/ v > tasks[last'.task].end))
            => /\ LeafPresent(world', v)
               /\ LeafFrame(world', v) = LeafFrame(world, v)
               /\ IsReserved(world'.bitmap, LeafFrame(world, v))
               /\ WalkTables(world', v) = WalkTables(world, v)
               /\ \A f \in WalkTables(world, v) : IsReserved(world'.bitmap, f)]_vars

\* An UnmapMemTask has returned while a page of another segment under the
\* same PT was mapped.
C33_NeighbourSegment ==
    /\ world.fault = "none"
    /\ last.op = "UnmapMemTask::run"
    /\ last.res = "Ready"
    /\ \E j \in 1 .. Len(tasks) :
          /\ j # last.task
          /\ tasks[j].kind = "map"
          /\ tasks[j].res = "Ok"
          /\ CheckDepth(tasks[j].start, tasks[last.task].start) <= 1

\* ----------------------------------------------------- arena page claims
\* The clear bits among the first MAX_NODES bits of a storage page's bitmap.
ClearSlots(page) ==
    {i \in 0 .. (MAX_NODES - 1) : BitOf(page.usage_bitmap[i \div 8], i % 8) = 0}

\* C39: in every arena page free_entries is the number of clear bits among
\* the first MAX_NODES bits of the usage bitmap, from the creation of the page
\* on, and no reservation in a page has ended in a panic.
C39_FreeEntriesMatchBitmap ==
    /\ world.fault # "panic"
    /\ \A f \in DOMAIN world.pages :
          world.pages[f].free_entries = Cardinality(ClearSlots(world.pages[f]))

\* A node has been reserved in a storage page.
C39_NodeReserved ==
    /\ last.op = "insert"
    /\ last.res = "Ok"
    /\ \E f \in DOMAIN world.pages : world.pages[f].free_entries < MAX_NODES

\* free_entries and the bitmap move together: they differ by what they
\* differed by when the page was created.
C39_CountersMoveTogether ==
    world.fault = "none" =>
        \A f \in DOMAIN world.pages :
           world.pages[f].free_entries - Cardinality(ClearSlots(world.pages[f]))
              = MAX_NODES - Cardinality(ClearSlots(NewStoragePage(NONE)))

\* The pages linked from the head by next_page.
RECURSIVE LinkedPages(_, _, _)
LinkedPages(W, frame, fuel) ==
    IF frame = NONE \/ frame \notin DOMAIN W.pages \/ fuel = 0 THEN {}
    ELSE {frame} \cup LinkedPages(W, W.pages[frame].next_page, fuel - 1)

\* The arena list of W is a doubly-linked list from the head, every page of
\* it in a reserved frame, and only the head may be without a reserved node.
ArenaConsistent(W) ==
    /\ W.head \in DOMAIN W.pages
    /\ W.pages[W.head].prev_page = NONE
    /\ LinkedPages(W, W.head, MaxFuel) = DOMAIN W.pages
    /\ \A f \in DOMAIN W.pages :
          /\ IsReserved(W.bitmap, f)
          /\ W.pages[f].next_page # NONE =>
                /\ W.pages[f].next_page \in DOMAIN W.pages
                /\ W.pages[W.pages[f].next_page].prev_page = f
          /\ f # W.head =>
                /\ W.pages[f].prev_page \in DOMAIN W.pages
                /\ W.pages[W.pages[f].prev_page].next_page = f
                /\ W.pages[f].free_entries < MAX_NODES

C40_FIFO ==
    [][last'.op = "pop_front" =>
          last'.res = (IF world.pending = <<>> THEN NONE ELSE Head(world.pending))]_vars

\* pop_front has been called with a process pending.
C40_PoppedWithPending ==
    /\ last.op = "pop_front"
    /\ world.pending # <<>>

\* push_back alone keeps its part: the processes are chained by next in the
\* order of the calls, and the tail is the last one pushed.
C40_ChainedInOrder ==
    world.fault = "none" =>
        /\ \A i \in 1 .. (Len(world.pending) - 1) :
              world.next[world.pending[i]] = world.pending[i + 1]
        /\ world.pending # <<>> =>
              /\ world.tail = world.pending[Len(world.pending)]
              /\ world.next[world.tail] = NONE

====
